---------------------------- MODULE Spec2Model ----------------------------
(***************************************************************************)
(* MoveGuiderAI: the routine projector (build_gantt_df), the environmental *)
(* zone classifier (get_gantt_background_annotations), the workout slot    *)
(* search (find_daily_best_workout) and the hydration accumulator          *)
(* (calculate_hydration_needs).                                            *)
(*                                                                         *)
(* Units.  A time of day is a number of minutes 0..1439.  A date is its    *)
(* proleptic Gregorian ordinal.  A UTC offset is a number of minutes.      *)
(* Temperatures and UV indices are tenths (251 is 25.1), humidity is       *)
(* percent.  Millilitres are sixteenths of a millilitre (2625 is           *)
(* 164.0625 ml), which keeps (weight * 35) / 16 exact.                     *)
(* A text is a sequence of one-character strings.                          *)
(***************************************************************************)
EXTENDS Integers, Sequences, FiniteSets, TLC

VARIABLES
    pc,                   \* which call of the render pass has been made
    user_routine,         \* the active profile's routine: a list of task items
    city1_df, city2_df,   \* the two forecast series (index zone and rows)
    city1_name, city2_name,
    user_weight_kg,
    workout_duration_min,
    gantt_df,             \* result of build_gantt_df
    shapes,               \* result of get_gantt_background_annotations
    hydration_df,         \* result of calculate_hydration_needs
    daily_bests,          \* result of find_daily_best_workout
    search_log,           \* the passes of its while loop, day by day
    store,                \* the profile store: the file user_profiles.json
    session,              \* st.session_state
    io,                   \* what the last run did: calls made, values returned
    render,               \* the settings and the charts of the render pass
    cache                 \* the entries of st.cache_data for get_city_data

vars == <<pc, user_routine, city1_df, city2_df, city1_name, city2_name,
          user_weight_kg, workout_duration_min, gantt_df, shapes,
          hydration_df, daily_bests, search_log,
          store, session, io, render, cache>>

-----------------------------------------------------------------------------
(* Bounds of the model. *)

\* longest routine
MaxTasks == 2

\* longest forecast series given to the classifier and the accumulator
MaxLen == 26

\* longest forecast series given to the workout search
MaxObs == 52

\* most task items of a routine given to the workout search
MaxBusy == 2

MinutesPerDay == 24 * 60

-----------------------------------------------------------------------------
(* Texts and datetime.strptime(s, "%H:%M"). *)

Str(cs) == [isstr |-> TRUE, chars |-> cs]

None == [isstr |-> FALSE, chars |-> <<>>]

Digits == <<"0", "1", "2", "3", "4", "5", "6", "7", "8", "9">>

IsDigit(c) == \E i \in 1..10 : Digits[i] = c

DigitVal(c) == (CHOOSE i \in 1..10 : Digits[i] = c) - 1

DigitAt(cs, i) == i >= 1 /\ i <= Len(cs) /\ IsDigit(cs[i])

\* %H is the pattern 2[0-3]|[0-1]\d|\d : the number of characters it takes
\* at the head of cs when a ":" has to follow, 0 when it cannot match.
HourLen(cs) ==
    IF /\ DigitAt(cs, 1) /\ DigitAt(cs, 2)
       /\ \/ (cs[1] = "2" /\ DigitVal(cs[2]) <= 3)
          \/ DigitVal(cs[1]) <= 1
       /\ Len(cs) >= 3 /\ cs[3] = ":"
    THEN 2
    ELSE IF DigitAt(cs, 1) /\ Len(cs) >= 2 /\ cs[2] = ":"
         THEN 1
         ELSE 0

\* %M is the pattern [0-5]\d|\d, matched from position i.
MinuteLen(cs, i) ==
    IF DigitAt(cs, i) /\ DigitAt(cs, i + 1) /\ DigitVal(cs[i]) <= 5
    THEN 2
    ELSE IF DigitAt(cs, i) THEN 1 ELSE 0

Number(cs, i, n) ==
    IF n = 2 THEN 10 * DigitVal(cs[i]) + DigitVal(cs[i + 1]) ELSE DigitVal(cs[i])

\* datetime.strptime(s, "%H:%M").time(): the minutes since midnight, or the
\* exception raised: TypeError for a value that is no string, ValueError when
\* the pattern does not match or unconverted data remains.
strptime(s) ==
    IF ~s.isstr
    THEN [exc |-> "TypeError", time |-> 0]
    ELSE LET cs == s.chars
             h  == HourLen(cs)
             m  == MinuteLen(cs, h + 2)
         IN  IF h = 0 \/ m = 0
             THEN [exc |-> "ValueError", time |-> 0]
             ELSE IF h + 1 + m # Len(cs)
                  THEN [exc |-> "ValueError", time |-> 0]
                  ELSE [exc |-> "none",
                        time |-> 60 * Number(cs, 1, h) + Number(cs, h + 2, m)]

\* city_name.split(",")[0]: the text before the first comma.
RECURSIVE SplitFirst(_)
SplitFirst(cs) ==
    IF cs = <<>> \/ Head(cs) = ","
    THEN <<>>
    ELSE <<Head(cs)>> \o SplitFirst(Tail(cs))

-----------------------------------------------------------------------------
(* Time zones and aware datetimes. *)

\* date(2024, 1, 1).toordinal()
REFERENCE_DATE == 738886

\* A zone is its identifier and the UTC offset it has in January and in
\* July; the reference date lies in January.
Phoenix  == [id |-> "America/Phoenix",  jan |-> -420, jul |-> -420]
Chicago  == [id |-> "America/Chicago",  jan |-> -360, jul |-> -300]
London   == [id |-> "Europe/London",    jan |-> 0,    jul |-> 60]
Kolkata  == [id |-> "Asia/Kolkata",     jan |-> 330,  jul |-> 330]
Sydney   == [id |-> "Australia/Sydney", jan |-> 660,  jul |-> 600]
Honolulu == [id |-> "Pacific/Honolulu", jan |-> -600, jul |-> -600]

home_tz == Phoenix

\* tz.utcoffset at an instant of the given month (1 or 7).
UtcOffset(tz, month) == IF month = 1 THEN tz.jan ELSE tz.jul

\* An aware datetime: date ordinal, time of day, zone, and the offset in force.
DateTime(d, t, tz, off) == [date |-> d, tod |-> t, tz |-> tz, off |-> off]

\* Minutes since ordinal 0, in UTC: what aware datetimes are compared by.
Instant(dt) == dt.date * MinutesPerDay + dt.tod - dt.off

\* home_tz.localize(datetime.combine(REFERENCE_DATE, t)): January offset.
localize(tz, d, t) == DateTime(d, t, tz, UtcOffset(tz, 1))

\* dt.astimezone(tz) for an instant on or next to the reference date.
astimezone(dt, tz) ==
    LET local == Instant(dt) + UtcOffset(tz, 1)
    IN  DateTime(local \div MinutesPerDay, local % MinutesPerDay, tz,
                 UtcOffset(tz, 1))

\* dt.replace(year=..., month=..., day=...): wall time, zone and offset kept.
replace_date(dt, d) == [dt EXCEPT !.date = d]

\* dt + timedelta(minutes=n): wall-clock arithmetic, zone and offset kept.
plus_minutes(dt, n) ==
    LET w == dt.date * MinutesPerDay + dt.tod + n
    IN  [dt EXCEPT !.date = w \div MinutesPerDay, !.tod = w % MinutesPerDay]

-----------------------------------------------------------------------------
(* Forecast series, as parse_weather_data builds them. *)

\* Weather samples <<temperature, humidity, UV>> around every threshold the
\* components compare against.
Palette ==
    << <<200, 50, 20>>, <<310, 50, 10>>, <<270, 50, 10>>, <<250, 60, 39>>,
       <<251, 61, 39>>, <<180, 61, 0>>,  <<179, 50, 0>>,  <<300, 60, 70>>,
       <<301, 50, 70>>, <<300, 61, 71>>, <<200, 50, 40>>, <<200, 70, 80>>,
       <<140, 50, 10>>, <<250, 50, 0>>,  <<320, 80, 10>>, <<270, 61, 10>> >>

\* First calendar date of a forecast fetched in the given month.
FirstDate(month) == REFERENCE_DATE + (IF month = 1 THEN 7 ELSE 182)

\* One hourly row: the index value Time and the columns.  sunrise and sunset
\* are those of the row's calendar day (sun = <<sunrise, sunset>> minutes).
Observation(tz, month, wall, sample, sun) ==
    LET off == UtcOffset(tz, month)
        d   == wall \div MinutesPerDay
    IN  [Time    |-> DateTime(d, wall % MinutesPerDay, tz, off),
         temp    |-> sample[1],
         hum     |-> sample[2],
         uv      |-> sample[3],
         sunrise |-> DateTime(d, sun[1], tz, off),
         sunset  |-> DateTime(d, sun[2], tz, off)]

\* A frame of n hourly rows from startHour of the first date; row i carries
\* sample b + i * stride of the palette.
Forecast(tz, month, n, startHour, b, stride, sun) ==
    [tz   |-> tz,
     rows |-> [i \in 1..n |->
                 Observation(tz, month,
                     FirstDate(month) * MinutesPerDay + 60 * (startHour + i - 1),
                     Palette[((b + (i - 1) * stride) % Len(Palette)) + 1],
                     sun)]]

NoFrame == [tz |-> home_tz, rows |-> <<>>]

-----------------------------------------------------------------------------
(* build_gantt_df *)

\* tz1, tz2: the zone of the frame's DatetimeIndex.
IndexTz(df) == df.tz

\* A projector that keeps the date the conversion arrived at.
ShiftToCity_KeepDate(home_aware, tz) == astimezone(home_aware, tz)

\* Time-shift for one city and replace the date with REFERENCE_DATE.
ShiftToCity(home_aware, tz) ==
    replace_date(astimezone(home_aware, tz), REFERENCE_DATE)

GanttRow(task_item, start_home_aware, end_home_aware, tz, city_name) ==
    [Task     |-> task_item.task,
     Start    |-> ShiftToCity(start_home_aware, tz),
     Finish   |-> ShiftToCity(end_home_aware, tz),
     Resource |-> SplitFirst(city_name)]

\* A projector that appends the second city's row before the first city's.
ProjectTask_City2First(task_item, tz1, name1, tz2, name2) ==
    LET ps == strptime(task_item.start)
        pe == strptime(task_item.end)
        start_home_aware == localize(home_tz, REFERENCE_DATE, ps.time)
        end_home_aware   == localize(home_tz, REFERENCE_DATE, pe.time)
    IN  IF ps.exc # "none" THEN [rows |-> <<>>, exc |-> ps.exc]
        ELSE IF pe.exc # "none" THEN [rows |-> <<>>, exc |-> pe.exc]
        ELSE [rows |-> << GanttRow(task_item, start_home_aware, end_home_aware,
                                   tz2, name2),
                          GanttRow(task_item, start_home_aware, end_home_aware,
                                   tz1, name1) >>,
              exc  |-> "none"]

\* The body of the try block for one task item: the rows it appended to
\* gantt_data before it finished or raised, and the exception it raised.
ProjectTask(task_item, tz1, name1, tz2, name2) ==
    LET ps == strptime(task_item.start)
        pe == strptime(task_item.end)
        start_home_aware == localize(home_tz, REFERENCE_DATE, ps.time)
        end_home_aware   == localize(home_tz, REFERENCE_DATE, pe.time)
    IN  IF ps.exc # "none" THEN [rows |-> <<>>, exc |-> ps.exc]
        ELSE IF pe.exc # "none" THEN [rows |-> <<>>, exc |-> pe.exc]
        ELSE [rows |-> << GanttRow(task_item, start_home_aware, end_home_aware,
                                   tz1, name1),
                          GanttRow(task_item, start_home_aware, end_home_aware,
                                   tz2, name2) >>,
              exc  |-> "none"]

\* A handler that lets the TypeError of a missing time escape.
GanttCaught_ValueErrorOnly == {"ValueError"}

\* except (ValueError, TypeError): continue
GanttCaught == {"ValueError", "TypeError"}

RECURSIVE GanttLoop(_, _, _, _, _, _)
GanttLoop(routine, gantt_data, tz1, name1, tz2, name2) ==
    IF routine = <<>>
    THEN [rows |-> gantt_data, exc |-> "none"]
    ELSE LET r == ProjectTask(Head(routine), tz1, name1, tz2, name2)
         IN  IF r.exc = "none" \/ r.exc \in GanttCaught
             THEN GanttLoop(Tail(routine), gantt_data \o r.rows,
                            tz1, name1, tz2, name2)
             ELSE [rows |-> gantt_data \o r.rows, exc |-> r.exc]

\* The returned frame (its rows, in order) and the exception that escaped.
build_gantt_df(routine, df1, name1, df2, name2) ==
    GanttLoop(routine, <<>>, IndexTz(df1), name1, IndexTz(df2), name2)

-----------------------------------------------------------------------------
(* get_gantt_background_annotations *)

\* A whole number of degrees, UV units or percent, in tenths.
Tenths(x) == 10 * x

Min(a, b) == IF a < b THEN a ELSE b

Max(a, b) == IF a > b THEN a ELSE b

\* df.iloc[:k]
Head_(rows, k) == SubSeq(rows, 1, Min(k, Len(rows)))

\* A frame whose first day runs one row too long.
FIRST_DAY_ROWS_OffByOne == 24 + 1

\* first_day_df = city_df.iloc[:24]
FIRST_DAY_ROWS == 24

HEAT_TEMP_THRESHOLD == 30

HEAT_UV_THRESHOLD == 7

COMFORT_TEMP_RANGE == <<18, 25>>

COMFORT_UV_THRESHOLD == 4

Red == "rgba(255, 82, 82, 0.2)"

Green == "rgba(119, 221, 119, 0.2)"

\* A test that counts the threshold itself as heat.
IsHeat_Inclusive(row) ==
    row.temp >= Tenths(HEAT_TEMP_THRESHOLD) \/ row.uv >= Tenths(HEAT_UV_THRESHOLD)

IsHeat(row) ==
    row.temp > Tenths(HEAT_TEMP_THRESHOLD) \/ row.uv > Tenths(HEAT_UV_THRESHOLD)

IsComfort(row) ==
    /\ Tenths(COMFORT_TEMP_RANGE[1]) <= row.temp
    /\ row.temp <= Tenths(COMFORT_TEMP_RANGE[2])
    /\ row.uv < Tenths(COMFORT_UV_THRESHOLD)

\* x0: the row's local time of day on the reference date, tzinfo kept.
ZoneStart(row) ==
    DateTime(REFERENCE_DATE, row.Time.tod, row.Time.tz, row.Time.off)

Rect(row, fillcolor) ==
    [x0 |-> ZoneStart(row), x1 |-> plus_minutes(ZoneStart(row), 60),
     fillcolor |-> fillcolor]

\* A classifier that tests comfort on its own, by temperature alone.
ZonesOfRow_SeparateTests(row) ==
    (IF IsHeat(row) THEN << Rect(row, Red) >> ELSE <<>>)
    \o (IF /\ Tenths(COMFORT_TEMP_RANGE[1]) <= row.temp
           /\ row.temp <= Tenths(COMFORT_TEMP_RANGE[2])
        THEN << Rect(row, Green) >> ELSE <<>>)

\* The body of the loop: the shapes one row appends.
ZonesOfRow(row) ==
    IF IsHeat(row) THEN << Rect(row, Red) >>
    ELSE IF IsComfort(row) THEN << Rect(row, Green) >>
    ELSE <<>>

RECURSIVE ZoneLoop(_)
ZoneLoop(rows) ==
    IF rows = <<>> THEN <<>> ELSE ZonesOfRow(Head(rows)) \o ZoneLoop(Tail(rows))

get_gantt_background_annotations(city_df) ==
    ZoneLoop(Head_(city_df.rows, FIRST_DAY_ROWS))

-----------------------------------------------------------------------------
(* calculate_hydration_needs *)

\* A whole number of millilitres, in sixteenths of a millilitre.
Ml(x) == 16 * x

\* (user_weight_kg * 35) / 16 millilitres
base_hourly_intake_ml(weight_kg) == Ml(weight_kg * 35) \div 16

\* max(0, (t - 25) / 5) * 150
temp_extra(t) == Max(0, ((t - Tenths(25)) * Ml(150)) \div Tenths(5))

\* An extra that starts at 60 percent.
humidity_extra_Inclusive(h) == IF h >= 60 THEN Ml(50) ELSE 0

\* 50 if h > 60 else 0
humidity_extra(h) == IF h > 60 THEN Ml(50) ELSE 0

RecommendedIntake(row, weight_kg) ==
    base_hourly_intake_ml(weight_kg) + temp_extra(row.temp)
        + humidity_extra(row.hum)

\* The frame with its two new columns; cumsum runs over every row.
RECURSIVE HydrationRows(_, _, _)
HydrationRows(rows, weight_kg, running) ==
    IF rows = <<>>
    THEN <<>>
    ELSE LET intake == RecommendedIntake(Head(rows), weight_kg)
         IN  << [Time |-> Head(rows).Time, temp |-> Head(rows).temp,
                 hum |-> Head(rows).hum, intake |-> intake,
                 cumulative |-> running + intake] >>
             \o HydrationRows(Tail(rows), weight_kg, running + intake)

\* A result that is not cut to the first day.
HydrationResult_Whole(df_rows) == df_rows

\* return df.iloc[:24]
HydrationResult(df_rows) == Head_(df_rows, 24)

calculate_hydration_needs(city_df, weight_kg) ==
    HydrationResult(HydrationRows(city_df.rows, weight_kg, 0))

-----------------------------------------------------------------------------
(* find_daily_best_workout *)

\* Aware datetimes compare by instant.
NotAfter(a, b) == Instant(a) <= Instant(b)

\* dtidx.normalize().unique(): the calendar dates of the rows, each once,
\* in the order of their first row.
UniqueDays(rows) ==
    LET first(i) == \A j \in 1..(i - 1) : rows[j].Time.date # rows[i].Time.date
        firsts   == SelectSeq([i \in 1..Len(rows) |-> i], first)
    IN  [k \in 1..Len(firsts) |-> rows[firsts[k]].Time.date]

\* day_df = city_df[dtidx.normalize() == day_date]
DayFrame(rows, day_date) ==
    LET on(row) == row.Time.date = day_date IN SelectSeq(rows, on)

\* Busy intervals that fall back on a working day when the routine is empty.
BusyTimes_DefaultWhenEmpty(routine) ==
    LET parsed(i) == << strptime(routine[i].start).time,
                        strptime(routine[i].end).time >>
    IN  IF routine = <<>>
        THEN << <<8 * 60, 17 * 60>> >>
        ELSE [i \in 1..Len(routine) |-> parsed(i)]

\* The busy intervals of the routine; an item that does not parse is left out.
RECURSIVE BusyTimes(_)
BusyTimes(routine) ==
    IF routine = <<>>
    THEN <<>>
    ELSE LET ps == strptime(Head(routine).start)
             pe == strptime(Head(routine).end)
         IN  (IF ps.exc = "none" /\ pe.exc = "none"
              THEN << <<ps.time, pe.time>> >> ELSE <<>>)
             \o BusyTimes(Tail(routine))

\* A test that is content with one busy interval the window avoids.
IsFree_Any(current_time, workout_end, busy_times) ==
    \E k \in 1..Len(busy_times) :
        \/ current_time.tod >= busy_times[k][2]
        \/ workout_end.tod <= busy_times[k][1]

\* A search that takes every start for free.
IsFree_Always(current_time, workout_end, busy_times) == TRUE

\* is_free: the test against every busy interval, by time of day.
IsFree(current_time, workout_end, busy_times) ==
    \A k \in 1..Len(busy_times) :
        \/ current_time.tod >= busy_times[k][2]
        \/ workout_end.tod <= busy_times[k][1]

\* window_df = day_df.loc[current_time:workout_end], a slice by label.
Window(day_rows, current_time, workout_end) ==
    LET from == Instant(current_time)
        to   == Instant(workout_end)
        inside(row) == from <= Instant(row.Time) /\ Instant(row.Time) <= to
    IN  SelectSeq(day_rows, inside)

RECURSIVE SumOf(_, _)
SumOf(rows, col) ==
    IF rows = <<>> THEN 0 ELSE Head(rows)[col] + SumOf(Tail(rows), col)

RECURSIVE MaxOf(_, _)
MaxOf(rows, col) ==
    IF Len(rows) = 1
    THEN Head(rows)[col]
    ELSE Max(Head(rows)[col], MaxOf(Tail(rows), col))

\* A score that takes a window for a daylight one as soon as a part of it
\* lies between sunrise and sunset.
Score_PartlyDaylight(window_df, current_time, workout_end) ==
    LET k        == Len(window_df)
        sum_temp == SumOf(window_df, "temp")
        sum_hum  == SumOf(window_df, "hum")
        max_uv   == MaxOf(window_df, "uv")
        daylight == /\ NotAfter(window_df[1].sunrise, workout_end)
                    /\ NotAfter(current_time, window_df[1].sunset)
    IN  [num |-> 2 * (2 * Max(0, sum_temp - Tenths(22) * k))
                 + 2 * (-1 * Min(0, sum_temp - Tenths(15) * k))
                 + 10 * Max(0, sum_hum - 60 * k)
                 + 2 * k * max_uv * 5
                 + 20 * k * (IF ~daylight THEN 5 ELSE -10),
         den |-> 20 * k]

\* A score with the penalty for darkness and no bonus for daylight.
Score_NoBonus(window_df, current_time, workout_end) ==
    LET k        == Len(window_df)
        sum_temp == SumOf(window_df, "temp")
        sum_hum  == SumOf(window_df, "hum")
        max_uv   == MaxOf(window_df, "uv")
        daylight == /\ NotAfter(window_df[1].sunrise, current_time)
                    /\ NotAfter(workout_end, window_df[1].sunset)
    IN  [num |-> 2 * (2 * Max(0, sum_temp - Tenths(22) * k))
                 + 2 * (-1 * Min(0, sum_temp - Tenths(15) * k))
                 + 10 * Max(0, sum_hum - 60 * k)
                 + 2 * k * max_uv * 5
                 + 20 * k * (IF ~daylight THEN 5 ELSE 0),
         den |-> 20 * k]

\* The score of a window of k rows, as the fraction num / den with
\* den = 20 * k: temperatures and UV are tenths, means are sums over k.
Score(window_df, current_time, workout_end) ==
    LET k        == Len(window_df)
        sum_temp == SumOf(window_df, "temp")
        sum_hum  == SumOf(window_df, "hum")
        max_uv   == MaxOf(window_df, "uv")
        daylight == /\ NotAfter(window_df[1].sunrise, current_time)
                    /\ NotAfter(workout_end, window_df[1].sunset)
    IN  [num |-> 2 * (2 * Max(0, sum_temp - Tenths(22) * k))
                 + 2 * (-1 * Min(0, sum_temp - Tenths(15) * k))
                 + 10 * Max(0, sum_hum - 60 * k)
                 + 2 * k * max_uv * 5
                 + 20 * k * (IF ~daylight THEN 5 ELSE -10),
         den |-> 20 * k]

ScoreLess(a, b) == a.num * b.den < b.num * a.den

ScoreEqual(a, b) == a.num * b.den = b.num * a.den

\* The while loop of one day, from its step-th pass on: one record per
\* pass, with the slot the pass appended to possible_slots, if any.
\* current_time is 30 minutes further at every pass.
RECURSIVE SlotLoop(_, _, _, _, _, _)
SlotLoop(day_rows, first_time, step, day_end_time, busy_times, duration) ==
    LET current_time == plus_minutes(first_time, 30 * step)
        workout_end  == plus_minutes(current_time, duration)
        is_free      == IsFree(current_time, workout_end, busy_times)
        window_df    == Window(day_rows, current_time, workout_end)
    IN  IF ~NotAfter(workout_end, day_end_time)
        THEN <<>>
        ELSE << [current_time |-> current_time,
                 is_free      |-> is_free,
                 slot |->
                   IF is_free /\ window_df # <<>>
                   THEN << [start_time |-> current_time,
                            score   |-> Score(window_df, current_time, workout_end),
                            details |-> [sum_temp |-> SumOf(window_df, "temp"),
                                         sum_hum  |-> SumOf(window_df, "hum"),
                                         max_uv   |-> MaxOf(window_df, "uv"),
                                         rows     |-> Len(window_df)]] >>
                   ELSE <<>>] >>
             \o SlotLoop(day_rows, first_time, step + 1, day_end_time,
                         busy_times, duration)

\* The passes of the while loop over the rows of one day.
DayPasses(rows, routine, duration, day_date) ==
    LET day_rows == DayFrame(rows, day_date)
    IN  SlotLoop(day_rows, day_rows[1].Time, 0, day_rows[Len(day_rows)].Time,
                 BusyTimes(routine), duration)

\* possible_slots at the end of the while loop.
PossibleSlots(passes) ==
    LET appended(pass) == pass.slot # <<>>
        kept == SelectSeq(passes, appended)
    IN  [k \in 1..Len(kept) |-> kept[k].slot[1]]

\* A choice of the last slot of the least score.
BestSlot_Last(possible_slots) ==
    LET least(k) == \A l \in 1..Len(possible_slots) :
                        ~ScoreLess(possible_slots[l].score, possible_slots[k].score)
        last     == CHOOSE k \in 1..Len(possible_slots) :
                        least(k) /\ \A l \in (k + 1)..Len(possible_slots) : ~least(l)
    IN  possible_slots[last]

\* min(possible_slots, key=score): the first slot of the least score.
BestSlot(possible_slots) ==
    LET least(k) == \A l \in 1..Len(possible_slots) :
                        ~ScoreLess(possible_slots[l].score, possible_slots[k].score)
        first    == CHOOSE k \in 1..Len(possible_slots) :
                        least(k) /\ \A l \in 1..(k - 1) : ~least(l)
    IN  possible_slots[first]

Weekdays ==
    <<"Monday", "Tuesday", "Wednesday", "Thursday", "Friday", "Saturday",
      "Sunday">>

\* dt.strftime("%A")
WeekdayName(dt) == Weekdays[((dt.date + 6) % 7) + 1]

\* Labels counted from one.
DayLabel_FromOne(day_index, best_slot) ==
    IF day_index = 1 THEN "Today"
    ELSE IF day_index = 2 THEN "Tomorrow"
    ELSE WeekdayName(best_slot.start_time)

DayLabel(day_index, best_slot) ==
    IF day_index = 0 THEN "Today"
    ELSE IF day_index = 1 THEN "Tomorrow"
    ELSE WeekdayName(best_slot.start_time)

\* A search of one day more.
SEARCH_DAYS_OneMore == 3 + 1

\* The number of days searched.
SEARCH_DAYS == 3

\* What a call goes through: for every day searched, in order, the passes
\* of its while loop.
SearchLog(city_df, routine, duration) ==
    LET days == Head_(UniqueDays(city_df.rows), SEARCH_DAYS)
    IN  [k \in 1..Len(days) |->
            [day_date |-> days[k],
             passes   |-> DayPasses(city_df.rows, routine, duration, days[k])]]

\* The end of the body of the for loop for the day of the given index:
\* what it appends to daily_bests.
BestOfDay(passes, day_index) ==
    LET possible_slots == PossibleSlots(passes)
    IN  IF possible_slots = <<>>
        THEN <<>>
        ELSE LET best_slot == BestSlot(possible_slots)
             IN  << [start_time |-> best_slot.start_time,
                     score      |-> best_slot.score,
                     details    |-> best_slot.details,
                     day_label  |-> DayLabel(day_index, best_slot)] >>

RECURSIVE DayLoop(_, _)
DayLoop(log, day_index) ==
    IF day_index >= Len(log)
    THEN <<>>
    ELSE BestOfDay(log[day_index + 1].passes, day_index)
         \o DayLoop(log, day_index + 1)

\* The returned list daily_bests.
find_daily_best_workout(city_df, routine, duration) ==
    DayLoop(SearchLog(city_df, routine, duration), 0)

-----------------------------------------------------------------------------
(* The profile store (logic/user_profiles.py).  A dict with optional keys  *)
(* is a record of all its possible keys and the set of those present; an   *)
(* absent key holds a filler.                                              *)

\* d.get(key, default)
Get(d, key, default) == IF key \in d.present THEN d[key] ELSE default

NoSettings ==
    [present |-> {}, weight_kg |-> 0, wake_time |-> None, sleep_time |-> None,
     chronotype |-> ""]

\* {}: the profile without a key.
EmptyProfile == [present |-> {}, user_settings |-> NoSettings, routine |-> <<>>]

Settings(weight_kg, wake_time, sleep_time) ==
    [present |-> {"weight_kg", "wake_time", "sleep_time"},
     weight_kg |-> weight_kg, wake_time |-> wake_time,
     sleep_time |-> sleep_time, chronotype |-> ""]

Profile(user_settings, routine) ==
    [present |-> {"user_settings", "routine"},
     user_settings |-> user_settings, routine |-> routine]

\* The routine load_profiles seeds the default profile with.
SeedRoutine ==
    << [task  |-> <<"M", "o", "r", "n", "i", "n", "g">>,
        start |-> Str(<<"0", "8", ":", "0", "0">>),
        end   |-> Str(<<"1", "0", ":", "0", "0">>)],
       [task  |-> <<"S", "t", "a", "n", "d", "u", "p">>,
        start |-> Str(<<"1", "0", ":", "0", "0">>),
        end   |-> Str(<<"1", "0", ":", "3", "0">>)],
       [task  |-> <<"L", "u", "n", "c", "h">>,
        start |-> Str(<<"1", "2", ":", "3", "0">>),
        end   |-> Str(<<"1", "3", ":", "3", "0">>)],
       [task  |-> <<"T", "a", "s", "k", "s">>,
        start |-> Str(<<"1", "3", ":", "3", "0">>),
        end   |-> Str(<<"1", "7", ":", "0", "0">>)],
       [task  |-> <<"W", "o", "r", "k", "o", "u", "t">>,
        start |-> Str(<<"1", "7", ":", "3", "0">>),
        end   |-> Str(<<"1", "8", ":", "3", "0">>)] >>

DefaultProfileName ==
    <<"D", "e", "f", "a", "u", "l", "t", " ", "P", "r", "o", "f", "i", "l", "e">>

SeedProfile ==
    Profile(Settings(75, Str(<<"0", "6", ":", "0", "0">>),
                     Str(<<"2", "2", ":", "3", "0">>)),
            SeedRoutine)

\* A mapping from profile names to profiles is a function; this is {}.
NoProfiles == [name \in {} |-> EmptyProfile]

\* default_profile of load_profiles
DefaultProfiles == [name \in {DefaultProfileName} |-> SeedProfile]

\* profiles[profile_name] = profile_data
Put(profiles, profile_name, profile_data) ==
    [name \in (DOMAIN profiles) \cup {profile_name} |->
        IF name = profile_name THEN profile_data ELSE profiles[name]]

\* profiles.get(profile_name, {})
GetProfile(profiles, profile_name) ==
    IF profile_name \in DOMAIN profiles
    THEN profiles[profile_name] ELSE EmptyProfile

\* The store file: whether it exists, whether open(.., "r") and
\* open(.., "w") succeed on it, whether its text is a JSON document, and the
\* mapping the document holds.
StoreFile(exists, readable, writable, valid, profiles) ==
    [exists |-> exists, readable |-> readable, writable |-> writable,
     valid |-> valid, profiles |-> profiles]

\* No file at USER_PROFILES_PATH.
AbsentStore(writable) == StoreFile(FALSE, TRUE, writable, TRUE, NoProfiles)

\* save_profiles: the store after the call.  An IOError of open(.., "w") is
\* printed and the file is as before.
save_profiles(file, profiles) ==
    IF file.writable
    THEN StoreFile(TRUE, file.readable, TRUE, TRUE, profiles)
    ELSE file

\* load_profiles: the mapping returned and the store after the call.
load_profiles(file) ==
    IF ~file.exists
    THEN [returned |-> DefaultProfiles,
          store    |-> save_profiles(file, DefaultProfiles)]
    ELSE IF ~file.readable \/ ~file.valid
    THEN [returned |-> NoProfiles, store |-> file]
    ELSE [returned |-> file.profiles, store |-> file]

\* The characters of profile names, in code point order.
CodePoints == <<" ", "D", "P", "W", "a", "e", "f", "i", "k", "l", "o", "r", "t", "u">>

CodePoint(c) == CHOOSE i \in 1..Len(CodePoints) : CodePoints[i] = c

\* a < b for two texts, as Python compares str.
RECURSIVE TextLess(_, _)
TextLess(a, b) ==
    IF b = <<>> THEN FALSE
    ELSE IF a = <<>> THEN TRUE
    ELSE IF Head(a) # Head(b) THEN CodePoint(Head(a)) < CodePoint(Head(b))
    ELSE TextLess(Tail(a), Tail(b))

\* sorted(list(names))
RECURSIVE Sorted(_)
Sorted(names) ==
    IF names = {} THEN <<>>
    ELSE LET least == CHOOSE a \in names :
                          \A b \in names \ {a} : TextLess(a, b)
         IN  <<least>> \o Sorted(names \ {least})

get_profile_names(file) ==
    LET loaded == load_profiles(file)
    IN  [returned |-> Sorted(DOMAIN loaded.returned), store |-> loaded.store]

get_profile(file, profile_name) ==
    LET loaded == load_profiles(file)
    IN  [returned |-> GetProfile(loaded.returned, profile_name),
         store    |-> loaded.store]

Whitespace == {" ", "\t", "\n"}

\* not profile_name.strip()
IsBlank(profile_name) ==
    \A i \in 1..Len(profile_name) : profile_name[i] \in Whitespace

\* A save that takes any name.
save_profile_Unchecked(file, profile_name, profile_data) ==
    LET loaded == load_profiles(file)
    IN  [exc   |-> "none",
         store |-> save_profiles(loaded.store,
                       Put(loaded.returned, profile_name, profile_data))]

\* save_profile: the exception raised and the store after the call.
save_profile(file, profile_name, profile_data) ==
    IF IsBlank(profile_name)
    THEN [exc |-> "ValueError", store |-> file]
    ELSE LET loaded == load_profiles(file)
         IN  [exc   |-> "none",
              store |-> save_profiles(loaded.store,
                            Put(loaded.returned, profile_name, profile_data))]

\* st.session_state: the keys present and their values.
NoSession ==
    [present |-> {}, active_profile |-> EmptyProfile,
     df1 |-> NoFrame, df2 |-> NoFrame, city1 |-> <<>>, city2 |-> <<>>]

NoIo == [op |-> "none"]

NoRender == [raised |-> "none"]

\* No call of get_city_data is cached.
NoCache == [city_name \in {} |-> NoFrame]

\* The application has not run.
NoApp ==
    /\ store = AbsentStore(TRUE)
    /\ session = NoSession
    /\ io = NoIo
    /\ render = NoRender
    /\ cache = NoCache

-----------------------------------------------------------------------------
(* The routine projector's inputs and its specification. *)

StartTexts ==
    { Str(<<"0", "8", ":", "0", "0">>), Str(<<"1", "3", ":", "3", "0">>),
      Str(<<"1", ":", "5">>), Str(<<"2", "4", ":", "0", "0">>), None }

EndTexts ==
    { Str(<<"0", "9", ":", "0", "0">>), Str(<<"1", "7", ":", "0", "0">>),
      Str(<<"1", "2", ":", "6", "0">>), None }

\* The label of the i-th task of a routine.
Label(i) == <<"T", "a", "s", "k", Digits[(i % 10) + 1]>>

TaskItems(i) ==
    { [task |-> Label(i), start |-> s, end |-> e] :
        s \in StartTexts, e \in EndTexts }

RECURSIVE RoutinesOfLen(_)
RoutinesOfLen(n) ==
    IF n = 0
    THEN { <<>> }
    ELSE { Append(r, t) : r \in RoutinesOfLen(n - 1), t \in TaskItems(n) }

Routines == UNION { RoutinesOfLen(n) : n \in 0..MaxTasks }

Tempe     == <<"T", "e", "m", "p", "e", ",", " ", "A", "Z">>
Dallas    == <<"D", "a", "l", "l", "a", "s", ",", " ", "T", "X">>
LondonUK  == <<"L", "o", "n", "d", "o", "n">>
KolkataIN == <<"K", "o", "l", "k", "a", "t", "a", ",", "I", "N">>
SydneyAU  == <<"S", "y", "d", "n", "e", "y", ",", " ", "A", "U">>
HonoluluHI == <<"H", "o", "n", "o", "l", "u", "l", "u", ",", " ", "H", "I">>

DefaultSun == <<360, 1080>>

\* The two cities of one comparison request and the month it is made in.
Comparisons ==
    { [name1 |-> Tempe,      tz1 |-> Phoenix,  name2 |-> Dallas,    tz2 |-> Chicago],
      [name1 |-> Tempe,      tz1 |-> Phoenix,  name2 |-> LondonUK,  tz2 |-> London],
      [name1 |-> KolkataIN,  tz1 |-> Kolkata,  name2 |-> SydneyAU,  tz2 |-> Sydney],
      [name1 |-> HonoluluHI, tz1 |-> Honolulu, name2 |-> LondonUK,  tz2 |-> London] }

Months == {1, 7}

\* Nothing has been computed yet.
NoResults ==
    /\ gantt_df = [rows |-> <<>>, exc |-> "none"]
    /\ shapes = <<>>
    /\ hydration_df = <<>>
    /\ daily_bests = <<>>
    /\ search_log = <<>>

InitGantt ==
    /\ pc = "input"
    /\ user_routine \in Routines
    /\ \E c \in Comparisons, month \in Months :
          /\ city1_name = c.name1
          /\ city2_name = c.name2
          /\ city1_df = Forecast(c.tz1, month, 1, 0, 0, 1, DefaultSun)
          /\ city2_df = Forecast(c.tz2, month, 1, 0, 0, 1, DefaultSun)
    /\ user_weight_kg = 75
    /\ workout_duration_min = 60
    /\ NoResults
    /\ NoApp

\* app.py: gantt_df = build_gantt_df(user_routine, df1, c1_name, df2, c2_name)
CallBuildGantt ==
    /\ pc = "input"
    /\ pc' = "gantt"
    /\ gantt_df' = build_gantt_df(user_routine, city1_df, city1_name,
                                  city2_df, city2_name)
    /\ UNCHANGED <<user_routine, city1_df, city2_df, city1_name, city2_name,
                   user_weight_kg, workout_duration_min, shapes, hydration_df,
                   daily_bests, search_log,
                   store, session, io, render, cache>>

NextGantt == CallBuildGantt

SpecGantt == InitGantt /\ [][NextGantt]_vars

-----------------------------------------------------------------------------
(* Helpers of the routine projector's properties. *)

\* The task item parses: both of its times are HH:MM.
Parses(task_item) ==
    strptime(task_item.start).exc = "none" /\ strptime(task_item.end).exc = "none"

StartOf(task_item) == strptime(task_item.start).time

EndOf(task_item) == strptime(task_item.end).time

GanttRows == { gantt_df.rows[k] : k \in 1..Len(gantt_df.rows) }

RowsOfTask(task_item) == { row \in GanttRows : row.Task = task_item.task }

RoutineItems == { user_routine[i] : i \in 1..Len(user_routine) }

\* The UTC offset in force in a frame's rows.
FrameOffset(df) == df.rows[1].Time.off

\* The UTC offset of the home zone, which keeps one offset all year.
HomeOffset == UtcOffset(home_tz, 1)

\* The frame of the city a row belongs to.
FrameOfRow(row) ==
    IF row.Resource = SplitFirst(city1_name) THEN city1_df ELSE city2_df

-----------------------------------------------------------------------------
(* Properties of the routine projector. *)

\* C1: for every task whose start and end parse with start < end, and for
\* either city, the projected row's Finish lies exactly end - start minutes
\* after its Start.
C1_DurationPreserved ==
    pc = "gantt" =>
        \A t \in RoutineItems :
            (Parses(t) /\ StartOf(t) < EndOf(t)) =>
                \A row \in RowsOfTask(t) :
                    Instant(row.Finish) - Instant(row.Start)
                        = EndOf(t) - StartOf(t)

\* C8: the projected Start and Finish times of day are the home-zone times
\* of day shifted by the difference of the UTC offsets the target zone and
\* the home zone have in the forecast, modulo 24 hours (London 8 hours
\* ahead of Phoenix: 08:00-09:00 becomes 16:00-17:00).
C8_ShiftedByOffsetDifference ==
    pc = "gantt" =>
        \A t \in RoutineItems : \A row \in RowsOfTask(t) :
            LET ahead == FrameOffset(FrameOfRow(row)) - HomeOffset
            IN  /\ row.Start.tod  = (StartOf(t) + ahead) % MinutesPerDay
                /\ row.Finish.tod = (EndOf(t) + ahead) % MinutesPerDay

\* C9: every Start and every Finish of the result carries the reference
\* date, also when the conversion moved the instant to another day.
C9_OnReferenceDate ==
    pc = "gantt" =>
        \A row \in GanttRows :
            row.Start.date = REFERENCE_DATE /\ row.Finish.date = REFERENCE_DATE

\* C9 witness: a row whose conversion left the reference date.
C9_Witness ==
    /\ pc = "gantt"
    /\ \E t \in RoutineItems : \E row \in RowsOfTask(t) :
          /\ Parses(t)
          /\ astimezone(localize(home_tz, REFERENCE_DATE, StartOf(t)),
                        row.Start.tz).date < REFERENCE_DATE
    /\ \E t \in RoutineItems : \E row \in RowsOfTask(t) :
          /\ Parses(t)
          /\ astimezone(localize(home_tz, REFERENCE_DATE, EndOf(t)),
                        row.Finish.tz).date > REFERENCE_DATE

\* The routine without its malformed task items.
WellFormed(routine) == SelectSeq(routine, Parses)

\* C10: a task item whose start or end does not parse yields no row for
\* either city, nothing is raised, and the rows of the other task items are
\* those the routine without the malformed items yields.
C10_MalformedSkipped ==
    pc = "gantt" =>
        /\ gantt_df.exc = "none"
        /\ \A t \in RoutineItems : ~Parses(t) => RowsOfTask(t) = {}
        /\ gantt_df.rows =
             build_gantt_df(WellFormed(user_routine), city1_df, city1_name,
                            city2_df, city2_name).rows
        /\ Len(gantt_df.rows) = 2 * Len(WellFormed(user_routine))

\* C10 witness: a malformed item (one without a time at all) before a
\* well-formed one, whose two rows are the whole result.
C10_Witness ==
    /\ pc = "gantt"
    /\ Len(user_routine) = 2
    /\ ~user_routine[1].start.isstr
    /\ Parses(user_routine[2])
    /\ Len(gantt_df.rows) = 2
    /\ RowsOfTask(user_routine[2]) = GanttRows

\* C11: a task item whose times parse with end <= start is skipped: the
\* result holds no row of it for either city.
C11_ReversedSkipped ==
    pc = "gantt" =>
        \A t \in RoutineItems :
            (Parses(t) /\ EndOf(t) <= StartOf(t)) => RowsOfTask(t) = {}

\* The text is the part of the city label before its first comma.
IsShortName(short, label) ==
    /\ Len(short) <= Len(label)
    /\ \A i \in 1..Len(short) : short[i] = label[i] /\ short[i] # ","
    /\ Len(short) < Len(label) => label[Len(short) + 1] = ","

\* C12: the result holds, for each task item that parses and in the order
\* of the routine, exactly two rows, the first city's and then the second
\* city's; a row's Resource is the city label up to its first comma and
\* its Task is the task's label.
C12_TwoRowsPerTask ==
    pc = "gantt" =>
        LET tasks == WellFormed(user_routine)
            rows  == gantt_df.rows
        IN  /\ Len(rows) = 2 * Len(tasks)
            /\ \A k \in 1..Len(tasks) :
                  /\ rows[2 * k - 1].Task = tasks[k].task
                  /\ rows[2 * k].Task = tasks[k].task
                  /\ IsShortName(rows[2 * k - 1].Resource, city1_name)
                  /\ IsShortName(rows[2 * k].Resource, city2_name)
                  /\ rows[2 * k - 1].Start.tz = IndexTz(city1_df)
                  /\ rows[2 * k - 1].Finish.tz = IndexTz(city1_df)
                  /\ rows[2 * k].Start.tz = IndexTz(city2_df)
                  /\ rows[2 * k].Finish.tz = IndexTz(city2_df)

\* C12 witness: two tasks that parse, four rows, a first city whose label
\* has a comma and a second city whose label has none.
C12_Witness ==
    /\ pc = "gantt"
    /\ Len(WellFormed(user_routine)) = 2
    /\ Len(gantt_df.rows) = 4
    /\ gantt_df.rows[1].Resource # city1_name
    /\ gantt_df.rows[2].Resource = city2_name
    /\ gantt_df.rows[3].Task # gantt_df.rows[1].Task

-----------------------------------------------------------------------------
(* The classifier's and the accumulator's inputs and specifications. *)

\* Hourly frames of 0..MaxLen rows, starting at midnight or at 05:00.
DayFrames ==
    { Forecast(London, 7, n, h, b, stride, DefaultSun) :
        n \in 0..MaxLen, h \in {0, 5}, b \in 0..(Len(Palette) - 1),
        stride \in {1, 3} }

Weights == {0, 40, 75, 150}

InitZones ==
    /\ pc = "input"
    /\ user_routine = <<>>
    /\ city1_df \in DayFrames
    /\ city2_df = NoFrame
    /\ city1_name = LondonUK
    /\ city2_name = Tempe
    /\ user_weight_kg = 75
    /\ workout_duration_min = 60
    /\ NoResults
    /\ NoApp

\* app.py: bg_shapes1 = get_gantt_background_annotations(df1)
CallAnnotations ==
    /\ pc = "input"
    /\ pc' = "zones"
    /\ shapes' = get_gantt_background_annotations(city1_df)
    /\ UNCHANGED <<user_routine, city1_df, city2_df, city1_name, city2_name,
                   user_weight_kg, workout_duration_min, gantt_df,
                   hydration_df, daily_bests, search_log,
                   store, session, io, render, cache>>

NextZones == CallAnnotations

SpecZones == InitZones /\ [][NextZones]_vars

InitHydration ==
    /\ pc = "input"
    /\ user_routine = <<>>
    /\ city1_df \in DayFrames
    /\ city2_df = NoFrame
    /\ city1_name = LondonUK
    /\ city2_name = Tempe
    /\ user_weight_kg \in Weights
    /\ workout_duration_min = 60
    /\ NoResults
    /\ NoApp

\* calculate_hydration_needs(city_df, user_weight_kg)
CallHydration ==
    /\ pc = "input"
    /\ pc' = "hydration"
    /\ hydration_df' = calculate_hydration_needs(city1_df, user_weight_kg)
    /\ UNCHANGED <<user_routine, city1_df, city2_df, city1_name, city2_name,
                   user_weight_kg, workout_duration_min, gantt_df, shapes,
                   daily_bests, search_log,
                   store, session, io, render, cache>>

NextHydration == CallHydration

SpecHydration == InitHydration /\ [][NextHydration]_vars

-----------------------------------------------------------------------------
(* Properties of the hydration accumulator. *)

\* C3: the result has min(24, n) rows for a series of n rows, and its
\* cumulative column never decreases from a row to the next.
C3_LengthAndMonotone ==
    pc = "hydration" =>
        /\ Len(hydration_df) = Min(24, Len(city1_df.rows))
        /\ \A k \in 1..(Len(hydration_df) - 1) :
              hydration_df[k].cumulative <= hydration_df[k + 1].cumulative

\* C3 witness: a series longer than a day cut to 24 rows, with a step of the
\* running sum that adds nothing and one that adds something.
C3_Witness ==
    /\ pc = "hydration"
    /\ Len(city1_df.rows) > 24
    /\ Len(hydration_df) = 24
    /\ \E k \in 1..23 : hydration_df[k].cumulative = hydration_df[k + 1].cumulative
    /\ \E k \in 1..23 : hydration_df[k].cumulative < hydration_df[k + 1].cumulative

\* C7: every hour's intake is weight * 35 / 16 ml, plus 30 ml for each
\* degree above 25, plus 50 ml when humidity is above 60; in sixteenths of
\* a millilitre and tenths of a degree: 35 * weight + 48 per tenth + 800.
\* Weight 75 at 25 degrees and 50 percent gives 2625 / 16 ml.
C7_HourlyIntake ==
    pc = "hydration" =>
        \A k \in 1..Len(hydration_df) :
            LET r == hydration_df[k]
            IN  /\ r.intake = 35 * user_weight_kg
                     + (IF r.temp > 250 THEN 48 * (r.temp - 250) ELSE 0)
                     + (IF r.hum > 60 THEN 800 ELSE 0)
                /\ (user_weight_kg = 75 /\ r.temp = 250 /\ r.hum = 50)
                      => r.intake = 2625

\* C7 witness: weight 75 with an hour at exactly 25 degrees and 50 percent,
\* an hour at exactly 25 degrees and 60 percent, and a hot, humid hour.
C7_Witness ==
    /\ pc = "hydration"
    /\ user_weight_kg = 75
    /\ \E k \in 1..Len(hydration_df) :
          LET r == hydration_df[k]
          IN  r.temp = 250 /\ r.hum = 50 /\ r.intake = 2625
    /\ \E k \in 1..Len(hydration_df) :
          LET r == hydration_df[k]
          IN  r.temp = 250 /\ r.hum = 60 /\ r.intake = 2625
    /\ \E k \in 1..Len(hydration_df) :
          LET r == hydration_df[k]
          IN  r.temp = 320 /\ r.hum = 80 /\ r.intake = 2625 + 3360 + 800

-----------------------------------------------------------------------------
(* Properties of the environmental zone classifier. *)

\* The positions of the shapes drawn at a row's hour of the reference day.
ShapesAt(row) ==
    { k \in 1..Len(shapes) :
        shapes[k].x0.date = REFERENCE_DATE /\ shapes[k].x0.tod = row.Time.tod }

ColoursAt(row) == { shapes[k].fillcolor : k \in ShapesAt(row) }

\* The rows a day's classification may look at.
FirstDayRows == { city1_df.rows[i] : i \in 1..Min(24, Len(city1_df.rows)) }

\* C4: at most one zone per hourly observation, and never a Heat/UV
\* Warning zone and an Optimal Comfort zone for the same hour.
C4_OneClassPerHour ==
    pc = "zones" =>
        /\ Len(shapes) <= Len(city1_df.rows)
        /\ \A row \in FirstDayRows :
              /\ Cardinality(ShapesAt(row)) <= 1
              /\ ~(Red \in ColoursAt(row) /\ Green \in ColoursAt(row))

\* C4 witness: an hour of comfortable temperature under a UV index above 7
\* and an hour at 32 degrees with UV 1, each drawn as a Warning alone.
C4_Witness ==
    /\ pc = "zones"
    /\ \E row \in FirstDayRows :
          /\ row.temp = 200 /\ row.uv = 80
          /\ Cardinality(ShapesAt(row)) = 1 /\ ColoursAt(row) = {Red}
    /\ \E row \in FirstDayRows :
          /\ row.temp = 320 /\ row.uv = 10
          /\ Cardinality(ShapesAt(row)) = 1 /\ ColoursAt(row) = {Red}

\* C5: among the first 24 observations an hour is drawn as Warning exactly
\* when temperature > 30 or UV > 7, as Comfort exactly when
\* 18 <= temperature <= 25 and UV < 4, and not at all otherwise.
C5_Thresholds ==
    pc = "zones" =>
        \A row \in FirstDayRows :
            LET warning == row.temp > 300 \/ row.uv > 70
                comfort == 180 <= row.temp /\ row.temp <= 250 /\ row.uv < 40
            IN  /\ (Red \in ColoursAt(row)) <=> warning
                /\ (Green \in ColoursAt(row)) <=> comfort
                /\ (~warning /\ ~comfort) => ShapesAt(row) = {}

\* Some row of the first day has these readings and these colours.
Drawn(temp, uv, colours) ==
    \E row \in FirstDayRows :
        row.temp = temp /\ row.uv = uv /\ ColoursAt(row) = colours

\* C5 witness: every boundary of the claim in one classified day.
C5_Witness ==
    /\ pc = "zones"
    /\ Drawn(300, 70, {})
    /\ Drawn(301, 70, {Red})
    /\ Drawn(300, 71, {Red})
    /\ Drawn(310, 10, {Red})
    /\ Drawn(180, 0, {Green})
    /\ Drawn(250, 39, {Green})
    /\ Drawn(200, 20, {Green})
    /\ Drawn(200, 40, {})
    /\ Drawn(179, 0, {})
    /\ Drawn(251, 39, {})
    /\ Drawn(270, 10, {})

\* C6: only the first 24 observations are looked at; every classified hour
\* yields one zone from its local time of day on the reference date to one
\* hour later; there are as many zones as classified hours, and no two
\* zones overlap.
C6_HourlyZones ==
    pc = "zones" =>
        LET classified ==
                { row \in FirstDayRows :
                    \/ row.temp > 300 \/ row.uv > 70
                    \/ (180 <= row.temp /\ row.temp <= 250 /\ row.uv < 40) }
        IN  /\ Len(shapes) = Cardinality(classified)
            /\ \A row \in classified : Cardinality(ShapesAt(row)) = 1
            /\ \A k \in 1..Len(shapes) :
                  /\ \E row \in classified : k \in ShapesAt(row)
                  /\ Instant(shapes[k].x1) = Instant(shapes[k].x0) + 60
            /\ \A k, l \in 1..Len(shapes) :
                  k # l => \/ Instant(shapes[k].x1) <= Instant(shapes[l].x0)
                           \/ Instant(shapes[l].x1) <= Instant(shapes[k].x0)

\* C6 witness: a series of more than 24 rows whose 25th row would be
\* classified, two adjacent hours of one class drawn as two zones, and a
\* zone that starts at 23:00.
C6_Witness ==
    /\ pc = "zones"
    /\ Len(city1_df.rows) > 24
    /\ city1_df.rows[25].temp > 300
    /\ \E k \in 1..(Len(shapes) - 1) :
          /\ shapes[k].fillcolor = shapes[k + 1].fillcolor
          /\ Instant(shapes[k].x1) = Instant(shapes[k + 1].x0)
    /\ \E k \in 1..Len(shapes) : shapes[k].x0.tod = 23 * 60

-----------------------------------------------------------------------------
(* The workout search's inputs and its specification. *)

\* <<start, end>> of the task items a routine is made of: an hour, a
\* working day, the night up to 09:00, the whole day, and an item without
\* a start time.
BusyTexts ==
    { << Str(<<"0", "8", ":", "0", "0">>), Str(<<"0", "9", ":", "0", "0">>) >>,
      << Str(<<"0", "8", ":", "0", "0">>), Str(<<"1", "7", ":", "0", "0">>) >>,
      << Str(<<"0", ":", "0">>),           Str(<<"0", "9", ":", "0", "0">>) >>,
      << Str(<<"0", ":", "0">>),           Str(<<"2", "3", ":", "5", "9">>) >>,
      << None,                             Str(<<"0", "9", ":", "0", "0">>) >> }

BusyItems(i) ==
    { [task |-> Label(i), start |-> se[1], end |-> se[2]] : se \in BusyTexts }

RECURSIVE BusyRoutinesOfLen(_)
BusyRoutinesOfLen(n) ==
    IF n = 0
    THEN { <<>> }
    ELSE { Append(r, t) : r \in BusyRoutinesOfLen(n - 1), t \in BusyItems(n) }

BusyRoutines == UNION { BusyRoutinesOfLen(n) : n \in 0..MaxBusy }

\* Frames of no row, of a few rows, of a day and of several days; started
\* at 22:00 a frame of MaxObs rows reaches into a fourth calendar day.
\* w = <<first sample, stride, sun>>: with stride 0 the weather is the same
\* at every hour.
SearchFrames ==
    { Forecast(London, 7, n, h, w[1], w[2], w[3]) :
        n \in {0, 3, 26, MaxObs}, h \in {0, 22},
        w \in { <<0, 1, DefaultSun>>, <<5, 1, <<450, 990>> >>,
                <<6, 0, DefaultSun>> } }

Durations == {15, 60, 90}

InitWorkout ==
    /\ pc = "input"
    /\ user_routine \in BusyRoutines
    /\ city1_df \in SearchFrames
    /\ city2_df = NoFrame
    /\ city1_name = LondonUK
    /\ city2_name = Tempe
    /\ user_weight_kg = 75
    /\ workout_duration_min \in Durations
    /\ NoResults
    /\ NoApp

\* app.py: recommendations1 = find_daily_best_workout(df1, user_routine,
\* workout_duration): the for loop over the days of the passes just made.
CallFindWorkout ==
    /\ pc = "input"
    /\ pc' = "workout"
    /\ search_log' = SearchLog(city1_df, user_routine, workout_duration_min)
    /\ daily_bests' = DayLoop(search_log', 0)
    /\ UNCHANGED <<user_routine, city1_df, city2_df, city1_name, city2_name,
                   user_weight_kg, workout_duration_min, gantt_df, shapes,
                   hydration_df,
                   store, session, io, render, cache>>

NextWorkout == CallFindWorkout

SpecWorkout == InitWorkout /\ [][NextWorkout]_vars

-----------------------------------------------------------------------------
(* Properties of the workout search. *)

\* The busy intervals of the routine that parse and have start < end.
BusyIntervals ==
    { <<StartOf(t), EndOf(t)>> :
        t \in { u \in RoutineItems : Parses(u) /\ StartOf(u) < EndOf(u) } }

\* C2: the window [start_time, start_time + duration) of every returned
\* recommendation overlaps no busy interval: start_time's time of day is
\* at or after the interval's end, or the window's end is at or before
\* the interval's start.
C2_NoBusyOverlap ==
    pc = "workout" =>
        \A k \in 1..Len(daily_bests) : \A busy \in BusyIntervals :
            LET slot_start == daily_bests[k].start_time
                slot_end   == plus_minutes(slot_start, workout_duration_min)
            IN  \/ slot_start.tod >= busy[2]
                \/ slot_end.tod <= busy[1]

\* C2 witness: a routine with a busy interval changed what is recommended:
\* the search without the routine returns other slots.
C2_Witness ==
    /\ pc = "workout"
    /\ BusyIntervals # {}
    /\ daily_bests # <<>>
    /\ LET unbusy == find_daily_best_workout(city1_df, <<>>,
                                             workout_duration_min)
       IN  /\ Len(unbusy) = Len(daily_bests)
           /\ \E k \in 1..Len(daily_bests) :
                 unbusy[k].start_time # daily_bests[k].start_time

\* The calendar dates the searched frame has observations on.
FrameDates ==
    { city1_df.rows[i].Time.date : i \in 1..Len(city1_df.rows) }

\* The number of calendar days of the frame before the given date.
DaysBefore(date) == Cardinality({ d \in FrameDates : d < date })

\* The instants of the observations of a day, the first and the last.
InstantsOn(date) ==
    { Instant(city1_df.rows[i].Time) :
        i \in { k \in 1..Len(city1_df.rows) :
                  city1_df.rows[k].Time.date = date } }

FirstInstant(date) ==
    LET on == InstantsOn(date)
    IN  CHOOSE x \in on : \A y \in on : x <= y

LastInstant(date) ==
    LET on == InstantsOn(date)
    IN  CHOOSE x \in on : \A y \in on : x >= y

\* The days searched and the slots that were appended on each, in order.
SearchedDays == 1..Len(search_log)

SlotsOfDay(d) == PossibleSlots(search_log[d].passes)

SlotEnd(slot) == plus_minutes(slot.start_time, workout_duration_min)

\* The first observation at or after the start of a slot, in a frame in
\* ascending order of time.
FirstObservation(slot) ==
    LET from == Instant(slot.start_time)
        i == CHOOSE k \in 1..Len(city1_df.rows) :
                 /\ Instant(city1_df.rows[k].Time) >= from
                 /\ k > 1 => Instant(city1_df.rows[k - 1].Time) < from
    IN  city1_df.rows[i]

\* The whole window lies between the sunrise and the sunset of its first
\* observation.
InDaylight(slot) ==
    LET first == FirstObservation(slot)
    IN  /\ Instant(slot.start_time) >= Instant(first.sunrise)
        /\ Instant(SlotEnd(slot)) <= Instant(first.sunset)

\* The window runs over the sunset of its first observation.
OverSunset(slot) ==
    LET first == FirstObservation(slot)
    IN  /\ Instant(slot.start_time) < Instant(first.sunset)
        /\ Instant(SlotEnd(slot)) > Instant(first.sunset)

\* 20 * k times the score claimed for a slot of k observations: sums in
\* tenths of a degree and in percent, the UV maximum in tenths.
ClaimedScore(slot) ==
    LET k    == slot.details.rows
        heat == IF slot.details.sum_temp > 220 * k
                THEN 4 * (slot.details.sum_temp - 220 * k) ELSE 0
        cold == IF slot.details.sum_temp < 150 * k
                THEN 2 * (150 * k - slot.details.sum_temp) ELSE 0
        damp == IF slot.details.sum_hum > 60 * k
                THEN 10 * (slot.details.sum_hum - 60 * k) ELSE 0
        sun  == 10 * k * slot.details.max_uv
        day  == IF InDaylight(slot) THEN -200 * k ELSE 100 * k
    IN  heat + cold + damp + sun + day

\* C14: the score of every candidate is
\* max(0, mean_temp - 22) * 2 + max(0, 15 - mean_temp)
\* + max(0, mean_humidity - 60) * 0.5 + max_uv * 5, minus 10 when the whole
\* window lies within [sunrise, sunset] of its first observation and plus 5
\* otherwise.
C14_ScoreFormula ==
    pc = "workout" =>
        \A d \in SearchedDays :
            LET slots == SlotsOfDay(d)
            IN  \A j \in 1..Len(slots) :
                    /\ slots[j].details.rows > 0
                    /\ slots[j].score.den = 20 * slots[j].details.rows
                    /\ slots[j].score.num = ClaimedScore(slots[j])

\* C14 witness: a search that scored a window wholly in daylight, a window
\* that runs over the sunset, and a cold, a hot and a damp window.
C14_Witness ==
    /\ pc = "workout"
    /\ Len(search_log) > 0
    /\ LET slots == SlotsOfDay(1)
       IN  /\ \E j \in 1..Len(slots) : InDaylight(slots[j])
           /\ \E j \in 1..Len(slots) : OverSunset(slots[j])
           /\ \E j \in 1..Len(slots) :
                 slots[j].details.sum_temp < 150 * slots[j].details.rows
           /\ \E j \in 1..Len(slots) :
                 slots[j].details.sum_temp > 220 * slots[j].details.rows
           /\ \E j \in 1..Len(slots) :
                 slots[j].details.sum_hum > 60 * slots[j].details.rows

\* The observations of the half-open window [t, t + duration) of a slot.
HalfOpenWindow(slot) ==
    LET from == Instant(slot.start_time)
        to   == Instant(SlotEnd(slot))
        inside(row) == from <= Instant(row.Time) /\ Instant(row.Time) < to
    IN  SelectSeq(city1_df.rows, inside)

\* The statistics of the slot are those of the half-open window.
OverHalfOpenWindow(slot) ==
    LET window == HalfOpenWindow(slot)
    IN  /\ slot.details.rows = Len(window)
        /\ slot.details.sum_temp = SumOf(window, "temp")
        /\ slot.details.sum_hum = SumOf(window, "hum")
        /\ slot.details.max_uv = MaxOf(window, "uv")

\* C15: the mean temperature, the mean humidity and the UV maximum of
\* every conflict-free candidate are taken over exactly the observations
\* of [t, t + duration): the observation stamped t + duration is not one
\* of them.
C15_HalfOpenWindow ==
    pc = "workout" =>
        \A d \in SearchedDays :
            LET slots == SlotsOfDay(d)
            IN  \A j \in 1..Len(slots) : OverHalfOpenWindow(slots[j])

\* The recommendations that fall on the date of a searched day.
BestsOfDay(d) ==
    { k \in 1..Len(daily_bests) :
        daily_bests[k].start_time.date = search_log[d].day_date }

\* C16: for each searched day with a feasible candidate there is exactly
\* one recommendation; its score is the least of the day's feasible
\* candidates, and of the candidates of that score it is the earliest.
C16_OneBestPerDay ==
    pc = "workout" =>
        \A d \in SearchedDays :
            LET slots == SlotsOfDay(d)
            IN  slots # <<>> =>
                /\ Cardinality(BestsOfDay(d)) = 1
                /\ \A k \in BestsOfDay(d) :
                      /\ \E j \in 1..Len(slots) :
                            /\ slots[j].start_time = daily_bests[k].start_time
                            /\ slots[j].score = daily_bests[k].score
                      /\ \A j \in 1..Len(slots) :
                            /\ ~ScoreLess(slots[j].score, daily_bests[k].score)
                            /\ ScoreEqual(slots[j].score, daily_bests[k].score)
                                  => Instant(daily_bests[k].start_time)
                                        <= Instant(slots[j].start_time)

\* C16 witness: a day on which several feasible candidates share the least
\* score, next to candidates of a greater score.
C16_Witness ==
    /\ pc = "workout"
    /\ \E d \in SearchedDays : \E k \in BestsOfDay(d) :
          LET slots == SlotsOfDay(d)
          IN  /\ \E j \in 1..Len(slots) :
                    /\ ScoreEqual(slots[j].score, daily_bests[k].score)
                    /\ slots[j].start_time # daily_bests[k].start_time
              /\ \E j \in 1..Len(slots) :
                    ScoreLess(daily_bests[k].score, slots[j].score)

\* The name of the weekday of a date; the reference date is a Monday.
DayName(date) == Weekdays[((date - REFERENCE_DATE) % 7) + 1]

\* C17: a recommendation is labelled by the calendar day it falls on:
\* Today exactly on the first day of the series, Tomorrow exactly on the
\* second, the weekday name on the third; the list is in ascending day
\* order and has at most 3 entries.
C17_LabelledByDay ==
    pc = "workout" =>
        /\ Len(daily_bests) <= 3
        /\ \A k \in 1..Len(daily_bests) :
              LET date   == daily_bests[k].start_time.date
                  before == DaysBefore(date)
              IN  /\ date \in FrameDates
                  /\ before <= 2
                  /\ daily_bests[k].day_label = "Today" <=> before = 0
                  /\ daily_bests[k].day_label = "Tomorrow" <=> before = 1
                  /\ before = 2 => daily_bests[k].day_label = DayName(date)
                  /\ \A l \in 1..(k - 1) :
                        daily_bests[l].start_time.date < date

\* C17 witness: the first day has no recommendation, the second day's is
\* the first of the list, the third day's follows.
C17_Witness ==
    /\ pc = "workout"
    /\ Len(daily_bests) = 2
    /\ DaysBefore(daily_bests[1].start_time.date) = 1
    /\ daily_bests[1].day_label = "Tomorrow"
    /\ DaysBefore(daily_bests[2].start_time.date) = 2
    /\ daily_bests[2].day_label \in { Weekdays[i] : i \in 1..7 }

\* The busy intervals the times of which parse.
ParsedIntervals ==
    { <<StartOf(t), EndOf(t)>> : t \in { u \in RoutineItems : Parses(u) } }

\* The steps of the candidate starts of a day: every 30 minutes from the
\* first observation, as long as the window ends by the last one.
CandidateSteps(first, last) ==
    { j \in 0..(2 * 24) : first + 30 * j + workout_duration_min <= last }

\* The window from the given instant conflicts with a busy interval, by
\* the local time of day.
Conflicts(from, busy_intervals) ==
    LET start_tod == (from + FrameOffset(city1_df)) % MinutesPerDay
        end_tod   == (from + workout_duration_min + FrameOffset(city1_df))
                        % MinutesPerDay
    IN  \E busy \in busy_intervals :
            start_tod < busy[2] /\ end_tod > busy[1]

\* Every candidate start of the date conflicts with a busy interval.
AllConflict(date) ==
    LET first == FirstInstant(date)
        steps == CandidateSteps(first, LastInstant(date))
        busy_intervals == ParsedIntervals
    IN  \A j \in steps : Conflicts(first + 30 * j, busy_intervals)

\* C18: a day every candidate start of which conflicts with a busy
\* interval has no recommendation, and when that is so on every day the
\* result is the empty list.
C18_NoFallback ==
    pc = "workout" =>
        LET blocked == { date \in FrameDates : AllConflict(date) }
        IN  /\ \A k \in 1..Len(daily_bests) :
                  daily_bests[k].start_time.date \notin blocked
            /\ blocked = FrameDates => daily_bests = <<>>

\* C18 witness: a day with candidates that all conflict, and another day
\* that has a recommendation.
C18_Witness ==
    /\ pc = "workout"
    /\ daily_bests # <<>>
    /\ \E date \in FrameDates :
          /\ CandidateSteps(FirstInstant(date), LastInstant(date)) # {}
          /\ AllConflict(date)

\* The passes of the d-th searched day are those of the candidate starts
\* of its date.
PassesAreCandidates(d) ==
    LET date   == search_log[d].day_date
        passes == search_log[d].passes
        first  == FirstInstant(date)
        steps  == CandidateSteps(first, LastInstant(date))
    IN  /\ DaysBefore(date) = d - 1
        /\ Len(passes) = Cardinality(steps)
        /\ \A j \in 1..Len(passes) :
              /\ (j - 1) \in steps
              /\ Instant(passes[j].current_time) = first + 30 * (j - 1)
              /\ passes[j].current_time.date = date

\* C19: the days searched are the first 3 calendar days of the series, in
\* order; the passes of a day are those of the starts
\* first observation + 30 * k minutes, k = 0, 1, 2, ..., the window of
\* which ends no later than the day's last observation, and no others, so
\* the loop ends after that many passes.
C19_CandidateStarts ==
    pc = "workout" =>
        /\ Len(search_log) = Min(3, Cardinality(FrameDates))
        /\ \A d \in SearchedDays :
              search_log[d].day_date \in FrameDates /\ PassesAreCandidates(d)

\* C19 witness: a series of four calendar days, three of them searched,
\* with a day of no pass and a day of many.
C19_Witness ==
    /\ pc = "workout"
    /\ Cardinality(FrameDates) = 4
    /\ Len(search_log) = 3
    /\ \E d \in SearchedDays : search_log[d].passes = <<>>
    /\ \E d \in SearchedDays : Len(search_log[d].passes) > 40

-----------------------------------------------------------------------------
(* The render pass of a comparison: the routine projector and then the      *)
(* workout search of the first city, over the same routine.                 *)

\* The first city's forecast of the pass: 26 hourly rows from midnight.
RenderFrame(tz, month) == Forecast(tz, month, MaxLen, 0, 0, 1, DefaultSun)

InitRender ==
    /\ pc = "input"
    /\ user_routine \in BusyRoutines
    /\ \E c \in Comparisons, month \in Months :
          /\ city1_name = c.name1
          /\ city2_name = c.name2
          /\ city1_df = RenderFrame(c.tz1, month)
          /\ city2_df = Forecast(c.tz2, month, 1, 0, 0, 1, DefaultSun)
    /\ user_weight_kg = 75
    /\ workout_duration_min \in Durations
    /\ NoResults
    /\ NoApp

\* app.py: recommendations1 = find_daily_best_workout(df1, user_routine,
\* workout_duration), once the chart of the routine has been built.
CallFindWorkoutOfCity1 ==
    /\ pc = "gantt"
    /\ pc' = "recommended"
    /\ search_log' = SearchLog(city1_df, user_routine, workout_duration_min)
    /\ daily_bests' = DayLoop(search_log', 0)
    /\ UNCHANGED <<user_routine, city1_df, city2_df, city1_name, city2_name,
                   user_weight_kg, workout_duration_min, gantt_df, shapes,
                   hydration_df,
                   store, session, io, render, cache>>

NextRender == CallBuildGantt \/ CallFindWorkoutOfCity1

SpecRender == InitRender /\ [][NextRender]_vars

\* The rows of the chart that belong to the first city.
City1Rows ==
    { gantt_df.rows[2 * k - 1] : k \in 1..(Len(gantt_df.rows) \div 2) }

\* C13: no slot recommended for the first city overlaps, by local time of
\* day, a row the routine projector emitted for the same routine and the
\* same city.
C13_NoProjectedOverlap ==
    pc = "recommended" =>
        \A k \in 1..Len(daily_bests) : \A row \in City1Rows :
            LET slot_start == daily_bests[k].start_time
                slot_end   == plus_minutes(slot_start, workout_duration_min)
            IN  row.Start.tod < row.Finish.tod =>
                    \/ slot_start.tod >= row.Finish.tod
                    \/ slot_end.tod <= row.Start.tod

\* C20: an empty routine raises nothing in either component: the chart
\* has no row, the search rejects no candidate for a conflict, and every
\* searched day with a candidate window has a recommendation.
C20_EmptyRoutine ==
    (pc = "recommended" /\ user_routine = <<>>) =>
        /\ gantt_df = [rows |-> <<>>, exc |-> "none"]
        /\ \A d \in SearchedDays :
              LET date == search_log[d].day_date
              IN  /\ \A j \in 1..Len(search_log[d].passes) :
                        search_log[d].passes[j].is_free
                  /\ CandidateSteps(FirstInstant(date), LastInstant(date)) # {}
                        => BestsOfDay(d) # {}

\* C20 witness: an empty routine, a chart without rows, and a
\* recommendation for each of the two days of the forecast.
C20_Witness ==
    /\ pc = "recommended"
    /\ user_routine = <<>>
    /\ gantt_df.rows = <<>>
    /\ Len(search_log) = 2
    /\ Len(daily_bests) = 2

-----------------------------------------------------------------------------
(* The sidebar of the application: a run of the script loads the profiles, *)
(* and the Load Profile and Save Profile buttons act on the store.         *)

Work == <<"W", "o", "r", "k">>

\* What the Save Profile handler builds from the widgets.
EditedProfile(weight, wake_str, sleep_str, chronotype, routine) ==
    Profile([present |-> {"weight_kg", "wake_time", "sleep_time", "chronotype"},
             weight_kg |-> weight, wake_time |-> wake_str,
             sleep_time |-> sleep_str, chronotype |-> chronotype],
            routine)

NightOwl ==
    EditedProfile(60, Str(<<"0", "7", ":", "0", "0">>),
                  Str(<<"2", "3", ":", "0", "0">>), "Night Owl", <<>>)

Lark ==
    EditedProfile(75, Str(<<"0", "6", ":", "0", "0">>),
                  Str(<<"2", "2", ":", "3", "0">>), "Morning Lark",
                  << [task  |-> Label(1),
                      start |-> Str(<<"0", "8", ":", "0", "0">>),
                      end   |-> Str(<<"0", "9", ":", "0", "0">>)] >>)

EditedProfiles == {NightOwl, Lark}

\* The names typed into "Save as profile name".
SaveNames == {DefaultProfileName, Work, <<>>, <<" ", " ">>}

\* The mappings a store file holds when the application starts.
StoredProfiles ==
    { NoProfiles, DefaultProfiles,
      [name \in {Work} |-> NightOwl],
      [name \in {DefaultProfileName, Work} |->
          IF name = Work THEN NightOwl ELSE SeedProfile] }

\* The states of the store file when the application starts: absent, or
\* present with a JSON document or with a text that is none, readable or
\* not, writable or not.
InitialStores ==
    { AbsentStore(writable) : writable \in BOOLEAN }
    \cup { StoreFile(TRUE, readable, writable, TRUE, profiles) :
             readable \in BOOLEAN, writable \in BOOLEAN,
             profiles \in StoredProfiles }
    \cup { StoreFile(TRUE, readable, writable, FALSE, NoProfiles) :
             readable \in BOOLEAN, writable \in BOOLEAN }

\* No comparison has been requested: the render pass has no input.
NoInputs ==
    /\ user_routine = <<>>
    /\ city1_df = NoFrame
    /\ city2_df = NoFrame
    /\ city1_name = <<>>
    /\ city2_name = <<>>
    /\ user_weight_kg = 75
    /\ workout_duration_min = 60

InitProfiles ==
    /\ pc = "sidebar"
    /\ store \in InitialStores
    /\ session = NoSession
    /\ io = NoIo
    /\ render = NoRender
    /\ cache = NoCache
    /\ NoInputs
    /\ NoResults

\* The top of the script: the session's active profile is set on the first
\* run, and the sidebar lists the profile names.
Prologue(file, state) ==
    LET loaded == load_profiles(file)
        first  == IF "active_profile" \in state.present
                  THEN [store |-> file, session |-> state]
                  ELSE [store   |-> loaded.store,
                        session |->
                          [state EXCEPT
                             !.present = @ \cup {"active_profile"},
                             !.active_profile =
                                 GetProfile(loaded.returned, DefaultProfileName)]]
        names  == get_profile_names(first.store)
    IN  [store |-> names.store, session |-> first.session,
         profile_names |-> names.returned]

\* The first call of load_profiles in a run: the store it found, the
\* mapping it returned and the store it left.
FirstLoad(file) ==
    [before   |-> file,
     returned |-> load_profiles(file).returned,
     after    |-> load_profiles(file).store]

\* A run of the script with no button pressed.
OpenApp ==
    /\ pc = "sidebar"
    /\ LET top == Prologue(store, session)
       IN  /\ store' = top.store
           /\ session' = top.session
           /\ io' = [op |-> "run", loaded |-> FirstLoad(store),
                     profile_names |-> top.profile_names]
    /\ UNCHANGED <<pc, user_routine, city1_df, city2_df, city1_name,
                   city2_name, user_weight_kg, workout_duration_min, gantt_df,
                   shapes, hydration_df, daily_bests, search_log, render, cache>>

\* The options of the profile selectbox; without a profile it yields None.
Selectable(profile_names) ==
    IF profile_names = <<>>
    THEN { <<>> }
    ELSE { profile_names[i] : i \in 1..Len(profile_names) }

\* A run with the Load Profile button pressed.
LoadProfileClick ==
    /\ pc = "sidebar"
    /\ LET top == Prologue(store, session)
       IN  \E selected_profile_name \in Selectable(top.profile_names) :
               LET loaded == load_profiles(top.store)
               IN  /\ store' = loaded.store
                   /\ session' =
                        [top.session EXCEPT
                           !.active_profile =
                               GetProfile(loaded.returned, selected_profile_name)]
                   /\ io' = [op |-> "load", loaded |-> FirstLoad(store),
                             name |-> selected_profile_name]
    /\ UNCHANGED <<pc, user_routine, city1_df, city2_df, city1_name,
                   city2_name, user_weight_kg, workout_duration_min, gantt_df,
                   shapes, hydration_df, daily_bests, search_log, render, cache>>

\* A run with the Save Profile button pressed: save_profile, and then,
\* unless it raised, the session's active profile is the edited one.
SaveProfileClick ==
    /\ pc = "sidebar"
    /\ \E new_profile_name \in SaveNames, updated_profile \in EditedProfiles :
          LET top   == Prologue(store, session)
              saved == save_profile(top.store, new_profile_name, updated_profile)
          IN  /\ store' = saved.store
              /\ session' =
                   IF saved.exc = "none"
                   THEN [top.session EXCEPT !.active_profile = updated_profile]
                   ELSE top.session
              /\ io' = [op |-> "save", loaded |-> FirstLoad(store),
                        name |-> new_profile_name, data |-> updated_profile,
                        exc |-> saved.exc, before |-> top.store,
                        active_before |-> top.session.active_profile]
    /\ UNCHANGED <<pc, user_routine, city1_df, city2_df, city1_name,
                   city2_name, user_weight_kg, workout_duration_min, gantt_df,
                   shapes, hydration_df, daily_bests, search_log, render, cache>>

NextProfiles == OpenApp \/ LoadProfileClick \/ SaveProfileClick

SpecProfiles == InitProfiles /\ [][NextProfiles]_vars

\* The store file holds no profile.
HoldsNoProfile(file) ==
    ~file.exists \/ ~file.valid \/ DOMAIN file.profiles = {}

\* C21: when the store holds no profile at the time the profiles are
\* loaded, the default profile with the seeded routine is created in the
\* store and returned; after a load the store is not without a profile.
C21_DefaultSeeded ==
    io.op # "none" =>
        /\ HoldsNoProfile(io.loaded.before) =>
              /\ io.loaded.returned = DefaultProfiles
              /\ io.loaded.after.exists /\ io.loaded.after.valid
              /\ io.loaded.after.profiles = DefaultProfiles
        /\ ~HoldsNoProfile(io.loaded.after)

\* The names get_profile_names lists.
ListedNames(file) ==
    LET names == get_profile_names(file).returned
    IN  { names[i] : i \in 1..Len(names) }

\* C22: after a save under a name that is not blank, get_profile of the
\* name returns exactly the saved data, the name is listed, and the
\* session's active profile is the profile that was stored.
C22_SavedIsStored ==
    (io.op = "save" /\ ~IsBlank(io.name)) =>
        /\ get_profile(store, io.name).returned = io.data
        /\ io.name \in ListedNames(store)
        /\ session.active_profile = get_profile(store, io.name).returned

\* C27: a save changes only the entry of its name: every other profile the
\* store held before the call is in the store, with the same contents,
\* after it, whatever the state of the store file.
C27_OthersKept ==
    io.op = "save" =>
        \A other \in (DOMAIN io.before.profiles) \ {io.name} :
            /\ other \in DOMAIN store.profiles
            /\ store.profiles[other] = io.before.profiles[other]

\* C28: a save under an empty or whitespace-only name raises ValueError and
\* leaves the store as it was, and the Save Profile handler leaves the
\* session's active profile as it was.
C28_BlankNameRejected ==
    (io.op = "save" /\ IsBlank(io.name)) =>
        /\ io.exc = "ValueError"
        /\ store = io.before
        /\ session.active_profile = io.active_before

\* C28 witness: a whitespace-only name was rejected while the session held
\* another profile than the edited one and the store held profiles.
C28_Witness ==
    /\ io.op = "save"
    /\ io.name = <<" ", " ">>
    /\ io.exc = "ValueError"
    /\ session.active_profile # io.data
    /\ DOMAIN store.profiles # {}

-----------------------------------------------------------------------------
(* The render pass of the application (app.py, "if df1 in session_state"):  *)
(* it reads the comparison and the active profile from the session,         *)
(* builds the chart of the routine, splits it by city and searches the      *)
(* workout slots of both cities.  An exception ends the pass.               *)

GlendaleAZ == <<"G", "l", "e", "n", "d", "a", "l", "e", ",", " ", "A", "Z">>
GlendaleWI == <<"G", "l", "e", "n", "d", "a", "l", "e", ",", " ", "W", "I">>

\* The comparisons a session may hold: those above, and two cities whose
\* labels agree up to the first comma.
SessionComparisons ==
    Comparisons \cup
    { [name1 |-> GlendaleAZ, tz1 |-> Phoenix, name2 |-> GlendaleWI, tz2 |-> Chicago] }

\* A profile of the store file with a wake time that is no HH:MM, no other
\* setting, and a routine of a task that parses and one that does not.
Partial ==
    Profile([present |-> {"wake_time"}, weight_kg |-> 0,
             wake_time |-> Str(<<"6", "a", "m">>), sleep_time |-> None,
             chronotype |-> ""],
            << [task  |-> Label(1),
                start |-> Str(<<"0", "8", ":", "0", "0">>),
                end   |-> Str(<<"0", "9", ":", "0", "0">>)],
               [task  |-> Label(2),
                start |-> Str(<<"1", "2", ":", "6", "0">>),
                end   |-> None] >>)

\* The profiles a session may hold as its active profile.
ActiveProfiles == {EmptyProfile, SeedProfile, NightOwl, Lark, Partial}

\* The forecast a session holds for a city: three hourly rows from midnight.
SessionFrame(tz, month) == Forecast(tz, month, 3, 0, 0, 1, DefaultSun)

\* st.session_state after a comparison was generated.
Compared(active_profile, c, month) ==
    [present |-> {"active_profile", "df1", "df2", "city1", "city2"},
     active_profile |-> active_profile,
     df1 |-> SessionFrame(c.tz1, month), df2 |-> SessionFrame(c.tz2, month),
     city1 |-> c.name1, city2 |-> c.name2]

InitSession ==
    /\ pc = "session"
    /\ store = AbsentStore(TRUE)
    /\ \E active_profile \in ActiveProfiles, c \in SessionComparisons,
          month \in Months :
            session = Compared(active_profile, c, month)
    /\ io = NoIo
    /\ render = NoRender
    /\ cache = NoCache
    /\ NoInputs
    /\ NoResults

\* get_time_from_str: the parsed time of day, or the default.
get_time_from_str(time_str, default_time) ==
    LET parsed == strptime(time_str)
    IN  IF parsed.exc \in {"ValueError", "TypeError"}
        THEN default_time
        ELSE parsed.time

\* gantt_df[gantt_df["Resource"] == name.split(",")[0]].  The frame of an
\* empty gantt_data is pd.DataFrame(), which has no column to select.
RowsOfCity(frame, name) ==
    LET OfCity(row) == row.Resource = SplitFirst(name)
    IN  IF frame.rows = <<>>
        THEN [rows |-> <<>>, exc |-> "KeyError"]
        ELSE [rows |-> SelectSeq(frame.rows, OfCity), exc |-> "none"]

\* The pass up to the two charts of the routine: the exception that ended
\* it, the settings it read and the rows each chart received; the second
\* city's recommendations are filled in by the pass that gets that far.
Charts(active_profile, chart, name1, name2) ==
    LET current_settings == Get(active_profile, "user_settings", NoSettings)
        first  == RowsOfCity(chart, name1)
        second == RowsOfCity(chart, name2)
    IN  [raised     |-> IF chart.exc # "none" THEN chart.exc
                        ELSE IF first.exc # "none" THEN first.exc
                        ELSE second.exc,
         wake_time  |-> get_time_from_str(
                            Get(current_settings, "wake_time", None), 6 * 60),
         sleep_time |-> get_time_from_str(
                            Get(current_settings, "sleep_time", None),
                            22 * 60 + 30),
         chronotype_setting |-> Get(current_settings, "chronotype", "Default"),
         df1_gantt  |-> first.rows,
         df2_gantt  |-> IF first.exc = "none" THEN second.rows ELSE <<>>,
         recommendations2 |-> <<>>]

\* One render pass; workout_duration is the value of the duration widget,
\* which the pass reaches only when the charts raised nothing.
RenderPass ==
    /\ pc = "session"
    /\ "df1" \in session.present
    /\ pc' = "rendered"
    /\ city1_df' = session.df1
    /\ city2_df' = session.df2
    /\ city1_name' = session.city1
    /\ city2_name' = session.city2
    /\ user_weight_kg' =
          Get(Get(session.active_profile, "user_settings", NoSettings),
              "weight_kg", 75)
    /\ user_routine' = Get(session.active_profile, "routine", <<>>)
    /\ gantt_df' = build_gantt_df(user_routine', city1_df', city1_name',
                                  city2_df', city2_name')
    /\ \E workout_duration \in Durations :
          LET charts == Charts(session.active_profile, gantt_df',
                               city1_name', city2_name')
          IN  IF charts.raised # "none"
              THEN /\ render' = charts
                   /\ UNCHANGED <<workout_duration_min, daily_bests, search_log>>
              ELSE /\ workout_duration_min' = workout_duration
                   /\ search_log' = SearchLog(city1_df', user_routine',
                                              workout_duration)
                   /\ daily_bests' = DayLoop(search_log', 0)
                   /\ render' =
                        [charts EXCEPT !.recommendations2 =
                            find_daily_best_workout(city2_df', user_routine',
                                                    workout_duration)]
    /\ UNCHANGED <<shapes, hydration_df, store, session, io, cache>>

NextSession == RenderPass

SpecSession == InitSession /\ [][NextSession]_vars

\* C23: with an empty active profile a render pass uses weight 75, wake
\* 06:00, sleep 22:30, chronotype "Default" and an empty routine, and
\* raises no error.
C23_EmptyProfileRenders ==
    (pc = "rendered" /\ session.active_profile = EmptyProfile) =>
        /\ user_weight_kg = 75
        /\ render.wake_time = 6 * 60
        /\ render.sleep_time = 22 * 60 + 30
        /\ render.chronotype_setting = "Default"
        /\ user_routine = <<>>
        /\ render.raised = "none"

\* The rows of the chart at every second position from the given one: the
\* projector appends, per task, the first city's row and then the second's.
EverySecond(rows, from) ==
    [k \in 1..(Len(rows) \div 2) |-> rows[2 * (k - 1) + from]]

\* The tasks of the pass's routine that parse.
ValidTasks == { i \in 1..Len(user_routine) : Parses(user_routine[i]) }

\* C30: each city's chart receives exactly the rows that were projected
\* into that city's own zone, one per valid task of the routine, also when
\* the two labels agree up to the first comma.
C30_OwnRowsOnly ==
    (pc = "rendered" /\ render.raised = "none") =>
        /\ render.df1_gantt = EverySecond(gantt_df.rows, 1)
        /\ render.df2_gantt = EverySecond(gantt_df.rows, 2)
        /\ Len(render.df1_gantt) = Cardinality(ValidTasks)
        /\ Len(render.df2_gantt) = Cardinality(ValidTasks)

-----------------------------------------------------------------------------
(* The "Generate Comparison" handler: get_city_data for both cities, behind *)
(* st.cache_data, and the commit of the two series and the two labels to    *)
(* the session.  The geocoder's and the forecast provider's answers are     *)
(* the environment's.                                                       *)

\* The place a city label stands for.
World(city_name) == IF city_name = Dallas THEN Chicago ELSE Phoenix

\* None, and a {"lat": .., "lon": ..} of a place.
NoCoordinates == [present |-> FALSE, place |-> home_tz]

Coordinates(place) == [present |-> TRUE, place |-> place]

\* No request was made.
Unasked == [status |-> "none", data |-> << >>, json |-> << >>]

\* The answers of Nominatim to a search: a match, no match, or a request
\* that failed.
GeoResponses(city_name) ==
    { [status |-> "ok", data |-> << World(city_name) >>],
      [status |-> "ok", data |-> << >>],
      [status |-> "error", data |-> << >>] }

\* The answer to the geocoder's request of a call of get_city_data: a call
\* answered from the cache and a call with an empty name make none.
GeoAnswers(entries, city_name) ==
    IF city_name \in DOMAIN entries \/ city_name = <<>>
    THEN { Unasked }
    ELSE GeoResponses(city_name)

\* The weather samples a place's forecast may start with.
SamplesOf(place) == IF place = Phoenix THEN {0, 1} ELSE {0}

\* The forecast document of a place: its zone, the month it was fetched in,
\* the number of its hours and the weather sample of its first hour.
Payload(place, month, sample) ==
    [present |-> TRUE, tz_id |-> place, month |-> month, hours |-> 3,
     sample |-> sample]

NoPayload ==
    [present |-> FALSE, tz_id |-> home_tz, month |-> 7, hours |-> 0, sample |-> 0]

\* The answers of WeatherAPI for a place: a document, or a request that
\* failed.
WeatherResponses(place) ==
    { [status |-> "ok", json |-> Payload(place, 7, sample)] :
        sample \in SamplesOf(place) }
    \cup { [status |-> "error", json |-> NoPayload] }

\* The answer to the forecast request of a call of get_city_data; a call
\* answered from the cache makes none.
WeatherAnswers(entries, city_name) ==
    IF city_name \in DOMAIN entries
    THEN { Unasked }
    ELSE WeatherResponses(World(city_name))

\* resolve_latlon_nominatim: an empty name is answered without a request.
resolve_latlon_nominatim(city_name, response) ==
    IF city_name = <<>>
    THEN NoCoordinates
    ELSE IF response.status = "ok" /\ response.data # <<>>
    THEN Coordinates(response.data[1])
    ELSE NoCoordinates

\* get_weather_data_from_weatherapi
get_weather_data_from_weatherapi(coordinates, response) ==
    IF response.status = "ok" THEN response.json ELSE NoPayload

\* parse_weather_data: the hourly rows of the document, in its zone.
parse_weather_data(data) ==
    Forecast(data.tz_id, data.month, data.hours, 0, data.sample, 1, DefaultSun)

\* What get_city_data returns: None or a series.
NoData == [isnone |-> TRUE, frame |-> NoFrame]

Data(frame) == [isnone |-> FALSE, frame |-> frame]

Called(fn, ok) == [fn |-> fn, ok |-> ok]

\* A get_city_data that asks for the forecast whatever the geocoder said.
get_city_data_FetchAnyway(city_name, geo, weather) ==
    LET coordinates  == resolve_latlon_nominatim(city_name, geo)
        weather_data == get_weather_data_from_weatherapi(coordinates, weather)
    IN  [result |-> IF weather_data.present
                    THEN Data(parse_weather_data(weather_data)) ELSE NoData,
         calls  |-> << Called("resolve_latlon_nominatim", coordinates.present),
                       Called("get_weather_data_from_weatherapi",
                              weather_data.present) >>
                    \o IF weather_data.present
                       THEN << Called("parse_weather_data", TRUE) >> ELSE << >>]

\* The body of get_city_data: what it returns, and the calls it made in
\* order, each with whether it returned a value.
get_city_data(city_name, geo, weather) ==
    LET coordinates  == resolve_latlon_nominatim(city_name, geo)
        weather_data == get_weather_data_from_weatherapi(coordinates, weather)
        geocoded     == << Called("resolve_latlon_nominatim", coordinates.present) >>
        fetched      == Append(geocoded,
                               Called("get_weather_data_from_weatherapi",
                                      weather_data.present))
    IN  IF ~coordinates.present
        THEN [result |-> NoData, calls |-> geocoded]
        ELSE IF ~weather_data.present
        THEN [result |-> NoData, calls |-> fetched]
        ELSE [result |-> Data(parse_weather_data(weather_data)),
              calls  |-> Append(fetched, Called("parse_weather_data", TRUE))]

\* @st.cache_data: a call with a cached argument returns the cached value
\* and does not run the body; any other runs it and caches what it returns.
CachedGetCityData(entries, city_name, geo, weather) ==
    IF city_name \in DOMAIN entries
    THEN [result |-> entries[city_name], calls |-> << >>, hit |-> TRUE,
          city_name |-> city_name, geo |-> geo, weather |-> weather,
          cache |-> entries]
    ELSE LET ran == get_city_data(city_name, geo, weather)
         IN  [result |-> ran.result, calls |-> ran.calls, hit |-> FALSE,
              city_name |-> city_name, geo |-> geo, weather |-> weather,
              cache |-> Put(entries, city_name, ran.result)]

\* A handler that commits each city that has data.
Commit_Each(state, df1, df2, city1, city2) ==
    LET one == IF df1.isnone THEN state
               ELSE [state EXCEPT !.present = @ \cup {"df1", "city1"},
                                  !.df1 = df1.frame, !.city1 = city1]
    IN  IF df2.isnone THEN one
        ELSE [one EXCEPT !.present = @ \cup {"df2", "city2"},
                         !.df2 = df2.frame, !.city2 = city2]

\* if df1 is not None and df2 is not None: the four session entries are set.
Commit(state, df1, df2, city1, city2) ==
    IF ~df1.isnone /\ ~df2.isnone
    THEN [state EXCEPT !.present = @ \cup {"df1", "df2", "city1", "city2"},
                       !.df1 = df1.frame, !.df2 = df2.frame,
                       !.city1 = city1, !.city2 = city2]
    ELSE state

\* The texts of the two city inputs.
CityInputs == {Tempe, Dallas, <<>>}

InitCompare ==
    /\ pc = "main"
    /\ store = AbsentStore(TRUE)
    /\ session = [NoSession EXCEPT !.present = {"active_profile"},
                                   !.active_profile = SeedProfile]
    /\ io = NoIo
    /\ render = NoRender
    /\ cache = NoCache
    /\ NoInputs
    /\ NoResults

\* The button: the first city's data, then the second's, then the commit.
GenerateComparison ==
    /\ pc = "main"
    /\ \E city1 \in CityInputs, city2 \in CityInputs :
       \E geo1 \in GeoAnswers(cache, city1),
          weather1 \in WeatherAnswers(cache, city1) :
       \E first \in { CachedGetCityData(cache, city1, geo1, weather1) } :
       \E geo2 \in GeoAnswers(first.cache, city2),
          weather2 \in WeatherAnswers(first.cache, city2) :
       \E second \in { CachedGetCityData(first.cache, city2, geo2, weather2) } :
              /\ cache' = second.cache
              /\ session' = Commit(session, first.result, second.result,
                                   city1, city2)
              /\ io' = [op |-> "compare",
                        first  |-> [first EXCEPT !.cache = NoCache],
                        second |-> [second EXCEPT !.cache = NoCache]]
    /\ UNCHANGED <<pc, user_routine, city1_df, city2_df, city1_name,
                   city2_name, user_weight_kg, workout_duration_min, gantt_df,
                   shapes, hydration_df, daily_bests, search_log, store,
                   render>>

\* An hour passes without a request: the ttl of every entry has run out.
CacheExpires ==
    /\ pc = "main"
    /\ cache # NoCache
    /\ cache' = NoCache
    /\ UNCHANGED <<pc, user_routine, city1_df, city2_df, city1_name,
                   city2_name, user_weight_kg, workout_duration_min, gantt_df,
                   shapes, hydration_df, daily_bests, search_log, store,
                   session, io, render>>

NextCompare == GenerateComparison \/ CacheExpires

SpecCompare == InitCompare /\ [][NextCompare]_vars

\* The positions of the calls of a function in a list of calls.
CallsOf(calls, fn) == { i \in 1..Len(calls) : calls[i].fn = fn }

\* An external call of a get_city_data failed: the geocoder found nothing
\* or its request failed, or the forecast request, once made, failed.
ExternalFailure(get) ==
    \/ get.city_name # <<>> /\ (get.geo.status # "ok" \/ get.geo.data = <<>>)
    \/ /\ CallsOf(get.calls, "get_weather_data_from_weatherapi") # {}
       /\ get.weather.status # "ok"

\* The calls and the result of one run of the body of get_city_data.
CallOrder(get) ==
    /\ CallsOf(get.calls, "resolve_latlon_nominatim") = {1}
    /\ CallsOf(get.calls, "get_weather_data_from_weatherapi") \subseteq {2}
    /\ CallsOf(get.calls, "get_weather_data_from_weatherapi") # {} =>
           get.calls[1].ok
    /\ CallsOf(get.calls, "parse_weather_data") \subseteq {3}
    /\ CallsOf(get.calls, "parse_weather_data") # {} =>
           /\ get.calls[2].fn = "get_weather_data_from_weatherapi"
           /\ get.calls[2].ok
    /\ ExternalFailure(get) => get.result.isnone
    /\ ~get.result.isnone =>
           /\ get.result.frame = parse_weather_data(get.weather.json)
           /\ Len(get.result.frame.rows) = get.weather.json.hours

\* C24: in a run of get_city_data the geocoder is called once, the forecast
\* provider at most once and only after the geocoder returned coordinates,
\* the parser only after the forecast provider returned a document; when an
\* external call fails the result is None, and a series that is returned
\* is the whole series of the document.
C24_CallOrder ==
    io.op = "compare" =>
        /\ ~io.first.hit => CallOrder(io.first)
        /\ ~io.second.hit => CallOrder(io.second)

\* C24 witness: the first city's forecast request failed after its
\* geocoding, and the second city's data went through all three calls.
C24_Witness ==
    /\ io.op = "compare"
    /\ Len(io.first.calls) = 2 /\ io.first.result.isnone
    /\ Len(io.second.calls) = 3 /\ ~io.second.result.isnone

Four == {"df1", "df2", "city1", "city2"}

\* The four comparison entries of a session.
FourOf(state) == <<state.present \cap Four, state.df1, state.df2,
                   state.city1, state.city2>>

\* C29: the session holds none or all four of df1, df2, city1, city2; a
\* request that has data for both cities sets the four to its own two
\* series and two labels, and a request in which a city has no data
\* changes none of the four.
C29_AllFromOneRequest ==
    /\ [](session.present \cap Four \in {{}, Four})
    /\ [][io'.op = "compare" =>
            IF ~io'.first.result.isnone /\ ~io'.second.result.isnone
            THEN FourOf(session') =
                     <<Four, io'.first.result.frame, io'.second.result.frame,
                       io'.first.city_name, io'.second.city_name>>
            ELSE FourOf(session') = FourOf(session)]_vars

\* C29 witness: the session holds the comparison of an earlier request
\* after a request in which only the first city had data.
C29_Witness ==
    /\ io.op = "compare"
    /\ ~io.first.result.isnone /\ io.second.result.isnone
    /\ session.present \cap Four = Four
    /\ session.city1 # io.first.city_name
    /\ session.df2 # io.first.result.frame

-----------------------------------------------------------------------------
(* The four components called again and again on the same inputs: what a   *)
(* call leaves of its arguments, and what it returns the next time.         *)

\* build_gantt_df reads the routine's items and the zone of each index; it
\* assigns to none of them.
GanttLeaves(routine, df1, df2) ==
    [user_routine |-> routine, city1_df |-> df1, city2_df |-> df2]

\* get_gantt_background_annotations iterates over city_df.iloc[:24].
AnnotationsLeave(city_df) == city_df

\* A hydration calculator that adds its columns to the frame it was given.
HydrationLeaves_InPlace(city_df, weight_kg) ==
    [city_df EXCEPT !.rows = HydrationRows(city_df.rows, weight_kg, 0)]

\* calculate_hydration_needs adds its columns to a copy of two columns of
\* city_df.
HydrationLeaves(city_df, weight_kg) == city_df

\* find_daily_best_workout selects the rows of a day and of a window from
\* city_df and reads the routine's items.
WorkoutLeaves(city_df, routine) ==
    [city1_df |-> city_df, user_routine |-> routine]

\* The forecast of either city: three hourly rows from 05:00, the second
\* hot and the third humid.
PureFrame(tz, month) == Forecast(tz, month, 3, 5, 0, 14, DefaultSun)

InitPure ==
    /\ pc = "calls"
    /\ user_routine \in RoutinesOfLen(0) \cup RoutinesOfLen(1)
    /\ \E c \in Comparisons, month \in Months :
          /\ city1_name = c.name1
          /\ city2_name = c.name2
          /\ city1_df = PureFrame(c.tz1, month)
          /\ city2_df = PureFrame(c.tz2, month)
    /\ user_weight_kg = 75
    /\ workout_duration_min = 60
    /\ NoResults
    /\ NoApp

\* The arguments of the four components.
Inputs ==
    [user_routine |-> user_routine, city1_df |-> city1_df,
     city2_df |-> city2_df, city1_name |-> city1_name,
     city2_name |-> city2_name, user_weight_kg |-> user_weight_kg,
     workout_duration_min |-> workout_duration_min]

\* The components called so far.
Done == IF io.op = "none" THEN {} ELSE io.done

\* The record of a call: the component, the components called up to now,
\* the arguments before the call and what the component returned last time.
PureCall(fn, previous) ==
    [op |-> fn, done |-> Done \cup {fn}, again |-> fn \in Done,
     before |-> Inputs, previous |-> previous]

AgainBuildGantt ==
    /\ pc = "calls"
    /\ gantt_df' = build_gantt_df(user_routine, city1_df, city1_name,
                                  city2_df, city2_name)
    /\ user_routine' = GanttLeaves(user_routine, city1_df, city2_df).user_routine
    /\ city1_df' = GanttLeaves(user_routine, city1_df, city2_df).city1_df
    /\ city2_df' = GanttLeaves(user_routine, city1_df, city2_df).city2_df
    /\ io' = PureCall("build_gantt_df", gantt_df)
    /\ UNCHANGED <<pc, city1_name, city2_name, user_weight_kg,
                   workout_duration_min, shapes, hydration_df, daily_bests,
                   search_log, store, session, render, cache>>

AgainAnnotations ==
    /\ pc = "calls"
    /\ shapes' = get_gantt_background_annotations(city1_df)
    /\ city1_df' = AnnotationsLeave(city1_df)
    /\ io' = PureCall("get_gantt_background_annotations", shapes)
    /\ UNCHANGED <<pc, user_routine, city2_df, city1_name, city2_name,
                   user_weight_kg, workout_duration_min, gantt_df,
                   hydration_df, daily_bests, search_log, store, session,
                   render, cache>>

AgainHydration ==
    /\ pc = "calls"
    /\ hydration_df' = calculate_hydration_needs(city1_df, user_weight_kg)
    /\ city1_df' = HydrationLeaves(city1_df, user_weight_kg)
    /\ io' = PureCall("calculate_hydration_needs", hydration_df)
    /\ UNCHANGED <<pc, user_routine, city2_df, city1_name, city2_name,
                   user_weight_kg, workout_duration_min, gantt_df, shapes,
                   daily_bests, search_log, store, session, render, cache>>

AgainFindWorkout ==
    /\ pc = "calls"
    /\ search_log' = SearchLog(city1_df, user_routine, workout_duration_min)
    /\ daily_bests' = DayLoop(search_log', 0)
    /\ city1_df' = WorkoutLeaves(city1_df, user_routine).city1_df
    /\ user_routine' = WorkoutLeaves(city1_df, user_routine).user_routine
    /\ io' = PureCall("find_daily_best_workout", daily_bests)
    /\ UNCHANGED <<pc, city2_df, city1_name, city2_name, user_weight_kg,
                   workout_duration_min, gantt_df, shapes, hydration_df,
                   store, session, render, cache>>

NextPure ==
    AgainBuildGantt \/ AgainAnnotations \/ AgainHydration \/ AgainFindWorkout

SpecPure == InitPure /\ [][NextPure]_vars

\* What the component of the last call returned.
Returned ==
    CASE io.op = "build_gantt_df" -> gantt_df
      [] io.op = "get_gantt_background_annotations" -> shapes
      [] io.op = "calculate_hydration_needs" -> hydration_df
      [] io.op = "find_daily_best_workout" -> daily_bests

-----------------------------------------------------------------------------
(* The workout search on days of the same weather at every hour.            *)

\* Frames of one day 00:00-23:00 and of several days, from midnight or from
\* 22:00, mild, hot or damp, with the sun up 06:00-18:00 or 07:30-16:30;
\* with stride 1 the weather changes from hour to hour.
DaylightFrames ==
    { Forecast(London, 7, n, h, sample, stride, sun) :
        n \in {24, MaxObs}, h \in {0, 22}, sample \in {6, 7, 11},
        stride \in {0, 1}, sun \in {DefaultSun, <<450, 990>>} }

BusyTask(i, start, end) ==
    [task |-> Label(i), start |-> Str(start), end |-> Str(end)]

NineToFive ==
    << BusyTask(1, <<"0", "9", ":", "0", "0">>, <<"1", "7", ":", "0", "0">>) >>

\* No task, the working day, the whole daylight, and the night.
DaylightRoutines ==
    { <<>>,
      NineToFive,
      << BusyTask(1, <<"0", "6", ":", "0", "0">>, <<"1", "8", ":", "0", "0">>) >>,
      << BusyTask(1, <<"0", "0", ":", "0", "0">>, <<"0", "9", ":", "0", "0">>),
         BusyTask(2, <<"1", "7", ":", "0", "0">>, <<"2", "3", ":", "5", "9">>) >> }

InitDaylight ==
    /\ pc = "input"
    /\ user_routine \in DaylightRoutines
    /\ city1_df \in DaylightFrames
    /\ city2_df = NoFrame
    /\ city1_name = LondonUK
    /\ city2_name = Tempe
    /\ user_weight_kg = 75
    /\ workout_duration_min \in Durations
    /\ NoResults
    /\ NoApp

NextDaylight == CallFindWorkout

SpecDaylight == InitDaylight /\ [][NextDaylight]_vars

\* The rows of the d-th searched day.
RowsOfDay(d) == DayFrame(city1_df.rows, search_log[d].day_date)

\* All observations of the day have the same temperature, humidity and UV.
SameWeather(day_rows) ==
    \A i \in 1..Len(day_rows) :
        /\ day_rows[i].temp = day_rows[1].temp
        /\ day_rows[i].hum = day_rows[1].hum
        /\ day_rows[i].uv = day_rows[1].uv

\* Hourly observations 00:00-23:00 with sunrise 06:00 and sunset 18:00.
FullDay(day_rows) ==
    /\ Len(day_rows) = 24
    /\ \A i \in 1..24 : day_rows[i].Time.tod = 60 * (i - 1)
    /\ day_rows[1].sunrise.tod = 6 * 60
    /\ day_rows[1].sunset.tod = 18 * 60

\* Score a is exactly 15 lower than score b.
FifteenLower(a, b) == a.num * b.den + 15 * a.den * b.den = b.num * a.den

\* C26: on a day whose observations all have the same temperature, humidity
\* and UV, every scored window wholly within [sunrise, sunset] scores
\* exactly 15 lower than every scored window that is not, and the day's
\* recommendation is wholly in daylight whenever such a window was scored;
\* with busy 09:00-17:00, duration 60, observations 00:00-23:00, sunrise
\* 06:00 and sunset 18:00 the recommended start is in 06:00-08:00 or 17:00.
C26_DaylightPreferred ==
    pc = "workout" =>
        \A d \in SearchedDays :
            LET slots    == SlotsOfDay(d)
                day_rows == RowsOfDay(d)
                daylight == { j \in 1..Len(slots) : InDaylight(slots[j]) }
                dark     == (1..Len(slots)) \ daylight
                bests    == BestsOfDay(d)
            IN  SameWeather(day_rows) =>
                  /\ \A i \in daylight : \A j \in dark :
                        FifteenLower(slots[i].score, slots[j].score)
                  /\ daylight # {} =>
                        /\ bests # {}
                        /\ \A k \in bests : InDaylight(daily_bests[k])
                  /\ ( /\ FullDay(day_rows)
                       /\ user_routine = NineToFive
                       /\ workout_duration_min = 60 ) =>
                        /\ bests # {}
                        /\ \A k \in bests :
                              \/ daily_bests[k].start_time.tod \in (6 * 60)..(8 * 60)
                              \/ daily_bests[k].start_time.tod = 17 * 60

\* C26 witness: a hot day 00:00-23:00 of the same weather at every hour,
\* busy 09:00-17:00, duration 60: windows in daylight and in the dark were
\* scored and the recommendation starts at 06:00.
C26_Witness ==
    /\ pc = "workout"
    /\ user_routine = NineToFive
    /\ workout_duration_min = 60
    /\ Len(search_log) > 0
    /\ Len(daily_bests) > 0
    /\ LET slots == SlotsOfDay(1)
       IN  /\ FullDay(RowsOfDay(1))
           /\ SameWeather(RowsOfDay(1))
           /\ city1_df.rows[1].temp = 300
           /\ \E j \in 1..Len(slots) : InDaylight(slots[j])
           /\ \E j \in 1..Len(slots) : ~InDaylight(slots[j])
           /\ daily_bests[1].start_time.tod = 6 * 60

=============================================================================
